---------------------------- MODULE Spec2Model ----------------------------
(***************************************************************************)
(* A model of vibe-img: the execution core (Core.execute), the layered     *)
(* image cache (VibeImgStorage over IndexedDB and the remote R2 layer),    *)
(* the cache-key builder and the <vibe-img> component hook (useVibeImg).   *)
(*                                                                         *)
(* Strings.  A string is a sequence of tokens; a token is a chunk of       *)
(* characters that the code never looks inside (a word, a phrase of an     *)
(* error message, a URL prefix, one blank).  startsWith, trim and includes *)
(* are computed on the token sequence.  Error messages are kept in lower   *)
(* case: classifyError decides on msg.toLowerCase() only.                  *)
(*                                                                         *)
(* Asynchrony.  The program is single-threaded: every action below is one  *)
(* event-loop step, i.e. the completion of one awaited operation followed  *)
(* by the synchronous code up to the next await (which includes issuing    *)
(* the next operation).  A run's pc names the operation it is awaiting.    *)
(***************************************************************************)
EXTENDS Naturals, Sequences, FiniteSets, TLC

None == <<"<none>">>

(***************************************************************************)
(* String helpers                                                          *)
(***************************************************************************)
Blank == " "

Quote == "'q'"

RECURSIVE TrimStart(_)
TrimStart(s) ==
    IF s # <<>> /\ Head(s) = Blank THEN TrimStart(Tail(s)) ELSE s

RECURSIVE TrimEnd(_)
TrimEnd(s) ==
    IF s # <<>> /\ s[Len(s)] = Blank THEN TrimEnd(SubSeq(s, 1, Len(s) - 1)) ELSE s

\* String.prototype.trim
Trim(s) == TrimEnd(TrimStart(s))

\* String.prototype.startsWith, for a one-token prefix
StartsWith(s, tok) == s # <<>> /\ Head(s) = tok

\* String.prototype.includes
Includes(s, p) ==
    \E i \in 1..(Len(s) + 1) :
        /\ i + Len(p) - 1 <= Len(s)
        /\ SubSeq(s, i, i + Len(p) - 1) = p

\* A JavaScript string used as a condition: '' is falsy (and so is undefined).
Truthy(s) == s # None /\ s # <<>>

\* Array.prototype.join(', ') over a sequence of strings
RECURSIVE Join(_)
Join(ss) ==
    IF ss = <<>> THEN <<>>
    ELSE IF Len(ss) = 1 THEN ss[1]
    ELSE ss[1] \o <<", ">> \o Join(Tail(ss))

\* msg.match(/"([^"]+)"/)?.[1] : the text between the first pair of quotes
RECURSIVE UpToQuote(_)
UpToQuote(s) ==
    IF s = <<>> \/ Head(s) = Quote THEN <<>> ELSE <<Head(s)>> \o UpToQuote(Tail(s))

RECURSIVE FirstQuoted(_)
FirstQuoted(s) ==
    IF s = <<>> THEN None
    ELSE IF Head(s) = Quote
         THEN (IF Includes(Tail(s), <<Quote>>) /\ UpToQuote(Tail(s)) # <<>>
               THEN UpToQuote(Tail(s))
               ELSE FirstQuoted(Tail(s)))
         ELSE FirstQuoted(Tail(s))

Quoted(s) == <<Quote>> \o s \o <<Quote>>


(***************************************************************************)
(* adapters/types.ts : operations and the model registry                   *)
(***************************************************************************)
Generate  == <<"generate">>
Img2Img   == <<"img2img">>
Upscale   == <<"upscale">>
RemoveBg  == <<"remove-bg">>
ReplaceBg == <<"replace-bg">>
Vectorize == <<"vectorize">>

\* Object.keys(OP_REQUIREMENTS), in the order of the literal
ALL_OPERATIONS == <<Generate, Img2Img, Upscale, RemoveBg, ReplaceBg, Vectorize>>

Range(f) == {f[i] : i \in DOMAIN f}

OP_REQUIREMENTS(op) ==
    CASE op = Generate  -> [prompt |-> TRUE,  ref |-> FALSE]
      [] op = Img2Img   -> [prompt |-> TRUE,  ref |-> TRUE]
      [] op = Upscale   -> [prompt |-> FALSE, ref |-> TRUE]
      [] op = RemoveBg  -> [prompt |-> FALSE, ref |-> TRUE]
      [] op = ReplaceBg -> [prompt |-> TRUE,  ref |-> TRUE]
      [] op = Vectorize -> [prompt |-> FALSE, ref |-> TRUE]

OpenAI  == <<"openai">>
Recraft == <<"recraft">>

\* An adapter written from the template of the repository, with isAsync and
\* the polling methods; the built-in set does not register it.
Flux == <<"flux">>

\* registerAll(): the built-in adapters, in registration order
RegistryIds == <<OpenAI, Recraft>>

\* ModelRegistry.has(id)
HasAdapter(id) == id \in Range(RegistryIds)

\* ModelRegistry.get(id), for a registered id
Adapter(id) ==
    CASE id = OpenAI ->
           [id |-> OpenAI, name |-> <<"openai (gpt-image)">>,
            supportedOps |-> <<Generate, Img2Img, ReplaceBg>>,
            corsMode |-> "proxy"]
      [] id = Recraft ->
           [id |-> Recraft, name |-> <<"recraft">>,
            supportedOps |-> ALL_OPERATIONS,
            corsMode |-> "direct"]
      [] id = Flux ->
           [id |-> Flux, name |-> <<"flux">>,
            supportedOps |-> <<Generate>>,
            corsMode |-> "proxy"]

(***************************************************************************)
(* utils/errorHandler.ts : classifyError.  The message is tested for the   *)
(* phrases in the order of the source; the first match decides.            *)
(***************************************************************************)
\* subject: the quoted text the detail line repeats (a model, an operation, a URL)
ClassifiedError(type, title, subject) ==
    [type |-> type, title |-> title, subject |-> subject]

classifyError(msg) ==
    IF Includes(msg, <<"no api key">>) \/ Includes(msg, <<"configure">>)
      THEN ClassifiedError("auth", "API key required",
                           IF FirstQuoted(msg) # None THEN FirstQuoted(msg)
                           ELSE <<"this provider">>)
    ELSE IF Includes(msg, <<" does not support ">>)
      THEN ClassifiedError("config", "Unsupported operation", None)
    ELSE IF Includes(msg, <<" requires a ", "reference image">>)
      THEN ClassifiedError("config", "Reference image missing", None)
    ELSE IF Includes(msg, <<" requires a ", "prompt">>)
      THEN ClassifiedError("config", "Prompt missing", None)
    ELSE IF Includes(msg, <<"failed to fetch", " ", "reference image">>)
      THEN ClassifiedError("network", "Reference image unreachable", FirstQuoted(msg))
    ELSE IF Includes(msg, <<"unknown operation">>)
      THEN ClassifiedError("config", "Unknown operation", FirstQuoted(msg))
    ELSE IF Includes(msg, <<"unknown model">>)
      THEN ClassifiedError("config", "Unknown model", FirstQuoted(msg))
    ELSE IF Includes(msg, <<"timed out">>) \/ Includes(msg, <<"timeout">>)
      THEN ClassifiedError("timeout", "Generation timed out", None)
    ELSE IF \/ Includes(msg, <<"network">>)
            \/ Includes(msg, <<"failed to fetch">>)
            \/ Includes(msg, <<"cors">>)
      THEN ClassifiedError("network", "Connection failed", None)
    ELSE IF \/ Includes(msg, <<"api error">>)
            \/ Includes(msg, <<"status 4">>)
            \/ Includes(msg, <<"status 5">>)
      THEN ClassifiedError("api", "Generation failed", None)
    ELSE IF \/ Includes(msg, <<"non-json">>)
            \/ Includes(msg, <<"empty response">>)
            \/ Includes(msg, <<"could not extract">>)
      THEN ClassifiedError("api", "Unexpected response", None)
    ELSE ClassifiedError("unknown", "Something went wrong", None)

(***************************************************************************)
(* core/Core.ts : the messages of the errors Core.execute throws           *)
(***************************************************************************)
UnknownModelMsg(modelId) ==
    <<"unknown model", ": ">> \o Quoted(modelId) \o <<". available: ">>
        \o (IF Join(RegistryIds) # <<>> THEN Join(RegistryIds) ELSE <<"none registered">>)

\* A message that does not list the operations
UnknownOperationBare(op) == <<"unknown operation", ": ">> \o Quoted(op)

UnknownOperationMsg(op) ==
    <<"unknown operation", ": ">> \o Quoted(op) \o <<". available: ">>
        \o Join(ALL_OPERATIONS)

UnsupportedMsg(adapter, op) ==
    Quoted(adapter.name) \o <<" does not support ">> \o Quoted(op)
        \o <<". supported: ">> \o Join(adapter.supportedOps)

RequiresPromptMsg(op) == Quoted(op) \o <<" requires a ", "prompt", ".">>

RequiresRefMsg(op) ==
    Quoted(op) \o <<" requires a ", "reference image", " (", "img-ref", " attribute).">>

NoApiKeyMsg(modelId) ==
    <<"no api key", " for ">> \o Quoted(modelId) \o <<". call vibeimg.", "configure", "({ ">>
        \o modelId \o <<": 'your-key' }) first.">>

RefFetchFailedMsg(refUrl, why) ==
    <<"failed to fetch", " ", "reference image", " from ">> \o Quoted(refUrl) \o <<": ">> \o why


(***************************************************************************)
(* dom-adapter/useVibeImg.ts : props and the cache-key builder             *)
(*                                                                         *)
(* VibeImgProps is a record of the element's attributes; None stands for   *)
(* an attribute that is not written (undefined).                           *)
(***************************************************************************)
PropNames ==
    <<"model", "op", "prompt", "img-ref", "aspect", "img-style", "quality",
      "format", "negative-prompt", "params", "seed">>

NoProps == [n \in Range(PropNames) |-> None]

\* The attribute list of the markup, in source order, read by name.
RECURSIVE PropsOf(_)
PropsOf(attrs) ==
    IF attrs = <<>> THEN NoProps
    ELSE [PropsOf(Tail(attrs)) EXCEPT ![Head(attrs)[1]] = Head(attrs)[2]]

\* const op = (props.op || 'generate')
OpOf(props) == IF Truthy(props["op"]) THEN props["op"] ELSE Generate

\* host?.closest('vibe-theme')?.getAttribute('prompt')?.trim()
ThemeOf(themeAttr) == IF themeAttr = None THEN None ELSE Trim(themeAttr)

\* A key builder that leaves the seed out of obj
KeyEntriesWithoutSeed(props, op, themeAttr, refForKey) ==
    SelectSeq(
        << <<"model",     props["model"]>>,
           <<"op",        op>>,
           <<"prompt",    props["prompt"]>>,
           <<"theme",     ThemeOf(themeAttr)>>,
           <<"aspect",    props["aspect"]>>,
           <<"style",     props["img-style"]>>,
           <<"quality",   props["quality"]>>,
           <<"format",    props["format"]>>,
           <<"negprompt", props["negative-prompt"]>>,
           <<"params",    props["params"]>>,
           <<"ref",       refForKey>> >>,
        LAMBDA e : Truthy(e[2]))

\* A key builder that writes every attribute it knows into obj, set or not
KeyEntriesKeepingAbsent(props, op, themeAttr, refForKey) ==
    << <<"model",     props["model"]>>,
       <<"op",        op>>,
       <<"prompt",    props["prompt"]>>,
       <<"theme",     ThemeOf(themeAttr)>>,
       <<"aspect",    props["aspect"]>>,
       <<"style",     props["img-style"]>>,
       <<"quality",   props["quality"]>>,
       <<"format",    props["format"]>>,
       <<"negprompt", props["negative-prompt"]>>,
       <<"seed",      props["seed"]>>,
       <<"params",    props["params"]>>,
       <<"ref",       refForKey>> >>

\* The entries of obj, in the order the code inserts them; a falsy value is skipped.
KeyEntries(props, op, themeAttr, refForKey) ==
    SelectSeq(
        << <<"model",     props["model"]>>,
           <<"op",        op>>,
           <<"prompt",    props["prompt"]>>,
           <<"theme",     ThemeOf(themeAttr)>>,
           <<"aspect",    props["aspect"]>>,
           <<"style",     props["img-style"]>>,
           <<"quality",   props["quality"]>>,
           <<"format",    props["format"]>>,
           <<"negprompt", props["negative-prompt"]>>,
           <<"seed",      props["seed"]>>,
           <<"params",    props["params"]>>,
           <<"ref",       refForKey>> >>,
        LAMBDA e : Truthy(e[2]))

\* The position of an obj key under Array.prototype.sort() (code-unit order).
KeyRank(k) ==
    CASE k = "aspect" -> 1 [] k = "format" -> 2 [] k = "model" -> 3
      [] k = "negprompt" -> 4 [] k = "op" -> 5 [] k = "params" -> 6
      [] k = "prompt" -> 7 [] k = "quality" -> 8 [] k = "ref" -> 9
      [] k = "seed" -> 10 [] k = "style" -> 11 [] k = "theme" -> 12

\* Object.keys(obj).sort() applied to the entries: insertion sort by KeyRank
RECURSIVE InsertEntry(_, _)
InsertEntry(e, sorted) ==
    IF sorted = <<>> THEN <<e>>
    ELSE IF KeyRank(e[1]) <= KeyRank(Head(sorted)[1]) THEN <<e>> \o sorted
    ELSE <<Head(sorted)>> \o InsertEntry(e, Tail(sorted))

RECURSIVE SortEntries(_)
SortEntries(es) ==
    IF es = <<>> THEN <<>> ELSE InsertEntry(Head(es), SortEntries(Tail(es)))

\* JSON string escaping of a value: a quote becomes an escaped quote
RECURSIVE JsonEscape(_)
JsonEscape(v) ==
    IF v = <<>> THEN <<>>
    ELSE (IF Head(v) = Quote THEN <<"\\", Quote>> ELSE <<Head(v)>>) \o JsonEscape(Tail(v))

RECURSIVE JsonMembers(_)
JsonMembers(es) ==
    IF es = <<>> THEN <<>>
    ELSE Quoted(<<Head(es)[1]>>) \o <<":">> \o Quoted(JsonEscape(Head(es)[2]))
         \o (IF Len(es) > 1 THEN <<",">> ELSE <<>>) \o JsonMembers(Tail(es))

\* JSON.stringify(obj, Object.keys(obj).sort())
Canonical(props, op, themeAttr, refForKey) ==
    <<"{">> \o JsonMembers(SortEntries(KeyEntries(props, op, themeAttr, refForKey))) \o <<"}">>

\* sha256(input) as a hex string.  The digest is taken to be collision-free:
\* it is represented by its preimage.
sha256(input) == <<"sha256(">> \o input \o <<")">>

buildRawCacheKey(props, op, themeAttr, refForKey) ==
    <<"vibeimg-">> \o sha256(Canonical(props, op, themeAttr, refForKey))


\* An element of the page that an img-ref="#id" can name: its id and the
\* attributes resolveRefForKey and resolveRef read.  elems maps the ids of the
\* elements that exist to these records.

\* A resolveRefForKey that uses the reference as written
resolveRefForKeyAsWritten(ref, elems) == ref

\* `#${el.id}:${el.getAttribute('model') || ''}:${el.getAttribute('prompt') || ''}`
resolveRefForKey(ref, elems) ==
    IF ~StartsWith(ref, "#") THEN ref
    ELSE IF Tail(ref) \notin DOMAIN elems THEN None
    ELSE <<"#">> \o Tail(ref) \o <<":">>
         \o (IF Truthy(elems[Tail(ref)].model) THEN elems[Tail(ref)].model ELSE <<>>)
         \o <<":">>
         \o (IF Truthy(elems[Tail(ref)].prompt) THEN elems[Tail(ref)].prompt ELSE <<>>)

\* props['img-ref'] ? resolveRefForKey(props['img-ref']) || undefined : undefined
RefForKey(props, elems) ==
    IF ~Truthy(props["img-ref"]) THEN None
    ELSE IF Truthy(resolveRefForKey(props["img-ref"], elems))
         THEN resolveRefForKey(props["img-ref"], elems)
    ELSE None

\* The cache key doExecute computes for an element with these props.
CacheKeyOf(props, themeAttr, elems) ==
    buildRawCacheKey(props, OpOf(props), themeAttr, RefForKey(props, elems))

(***************************************************************************)
(* State                                                                   *)
(***************************************************************************)
VARIABLES
    local,      \* IndexedDB imageUrls store: cache key -> url
    remote,     \* the keys stored in the remote (R2/CDN) layer
    apiKeys,    \* the model ids ApiKeyStorage holds a key for
    saved,      \* the model ids whose key-saved event is scheduled
    config,     \* VibeImgConfig
    runs,       \* the asynchronous executions in progress or ended, by id
    comp,       \* the hook state of each <vibe-img>, by element id
    dom,        \* the attributes of each <vibe-img> host element, by element id
    themeAttr,  \* the prompt attribute of the enclosing <vibe-theme> (None: no theme)
    applied,    \* history: who last wrote a component's visible state from a continuation
    markupA,    \* key-builder check: a markup
    markupB,    \* key-builder check: the markup compared with it
    keys,       \* key-builder check: the keys built for the two markups
    built,      \* adapter check: the last call of adapter.buildRequest and its result
    themes      \* the prompt attributes of the page's <vibe-theme> elements

vars ==
    <<local, remote, apiKeys, saved, config, runs, comp, dom, themeAttr, applied,
      markupA, markupB, keys, built, themes>>

coreVars == <<local, remote, apiKeys, saved, config, runs>>
compVars == <<comp, dom, themeAttr, applied>>
keyVars  == <<markupA, markupB, keys, built, themes>>

\* No adapter.buildRequest call has been made
NoRequest == <<>>

\* The <vibe-theme> elements of a page with one theme that has no prompt
\* attribute.  ancestors: the prompt attributes of the themes around the
\* components, nearest first; aside: the prompt attribute of a theme that
\* has no component inside; target: the theme that dispatched the last
\* 'vibeimg:themechange' event.
OneTheme == [ancestors |-> <<None>>, aside |-> None, target |-> None]


(***************************************************************************)
(* SpecKey : the cache-key builder applied to pairs of markups.            *)
(* A markup is the attribute list of a <vibe-img> (in source order) and    *)
(* the prompt attribute of its enclosing <vibe-theme>.                     *)
(***************************************************************************)
MaxAttrs == 2

\* The values an attribute is given here; the first is the one markupA carries.
AttrValues(n) ==
    CASE n = "model"   -> <<Recraft, OpenAI>>
      [] n = "op"      -> <<Upscale, Generate>>
      [] n = "prompt"  -> << <<"cat">>, <<"dog">> >>
      [] n = "img-ref" -> << <<"https://img/", "a.png">>, <<"#", "a">>, <<"#", "z">> >>
      [] n = "seed"    -> << <<"7">>, <<"0">> >>
      [] n = "params"  -> << <<"{", Quote, "n", Quote, ":1}">>, <<"{}">> >>
      [] OTHER         -> << <<"x">>, <<"y">> >>

ThemeValues == {None, <<"warm">>, <<Blank, "warm">>, <<"dark">>, <<Blank>>}

\* The page the markups are read on: one element that img-ref="#a" names.
KeyElems == (<<"a">> :> [model |-> Recraft, prompt |-> <<"cat">>])

AttrName(i) == PropNames[i]

NameChoices ==
    {s \in UNION {[1..k -> 1..Len(PropNames)] : k \in 0..MaxAttrs} :
        \A i, j \in DOMAIN s : i < j => s[i] < s[j]}

BaseMarkups ==
    {[attrs |-> [i \in DOMAIN s |-> <<AttrName(s[i]), AttrValues(AttrName(s[i]))[1]>>],
      theme |-> t] : s \in NameChoices, t \in {None, <<"warm">>}}

HasAttr(attrs, n) == \E i \in DOMAIN attrs : attrs[i][1] = n

\* The attribute list with attribute n written as v (appended when new).
SetAttr(attrs, n, v) ==
    IF HasAttr(attrs, n)
    THEN [i \in DOMAIN attrs |-> IF attrs[i][1] = n THEN <<n, v>> ELSE attrs[i]]
    ELSE Append(attrs, <<n, v>>)

DropAttr(attrs, n) == SelectSeq(attrs, LAMBDA a : a[1] # n)

MarkupKey(m) == CacheKeyOf(PropsOf(m.attrs), m.theme, KeyElems)

KeyInit ==
    /\ markupA \in BaseMarkups
    /\ markupB = markupA
    /\ keys = <<>>
    /\ built = NoRequest
    /\ themes = OneTheme

\* The same attributes written in another order.
Reorder ==
    /\ keys = <<>> /\ markupB = markupA
    /\ Len(markupA.attrs) >= 2
    /\ \E p \in Permutations(DOMAIN markupA.attrs) :
         /\ \E i \in DOMAIN p : p[i] # i
         /\ markupB' = [markupA EXCEPT !.attrs = [i \in DOMAIN p |-> markupA.attrs[p[i]]]]
    /\ UNCHANGED <<markupA, keys, built, themes, coreVars, compVars>>

\* One attribute written with another value, added (possibly empty) or removed.
EditAttr ==
    /\ keys = <<>> /\ markupB = markupA
    /\ \E n \in Range(PropNames) :
         \E v \in Range(AttrValues(n)) \cup {<<>>, None} :
            /\ PropsOf(markupA.attrs)[n] # v
            /\ markupB' = [markupA EXCEPT !.attrs =
                              IF v = None THEN DropAttr(markupA.attrs, n)
                              ELSE SetAttr(markupA.attrs, n, v)]
    /\ UNCHANGED <<markupA, keys, built, themes, coreVars, compVars>>

\* The enclosing theme's prompt written with another value.
EditTheme ==
    /\ keys = <<>> /\ markupB = markupA
    /\ \E t \in ThemeValues :
          /\ t # markupA.theme
          /\ markupB' = [markupA EXCEPT !.theme = t]
    /\ UNCHANGED <<markupA, keys, built, themes, coreVars, compVars>>

BuildKeys ==
    /\ keys = <<>>
    /\ keys' = <<MarkupKey(markupA), MarkupKey(markupB)>>
    /\ UNCHANGED <<markupA, markupB, built, themes, coreVars, compVars>>


(***************************************************************************)
(* Runs.  A run is one asynchronous chain: a Core.execute call made        *)
(* through the API, one doExecute of a component (core.lookup, the         *)
(* reference poll, core.execute and the .then/.catch handlers) or one      *)
(* cache invalidation started by onImgError.  pc names the awaited         *)
(* operation:                                                              *)
(*   lookupLocal  IndexDBStorage.getImage      lookupRemote  the CDN HEAD  *)
(*   waitRef      the waitForRef timer         getKey  keyResolver.getKey  *)
(*   fetchRef     the reference-image fetch    post    the provider POST   *)
(*   storeLocal   IndexDBStorage.storeImage    storeRemote   the PUT       *)
(*   removeLocal  IndexDBStorage.removeItem    removeRemote  the DELETE    *)
(*   returned / threw : Core.execute settled (API runs)                    *)
(*   ended : the chain of a component has run its last handler             *)
(* did collects the operations the run has issued.                         *)
(***************************************************************************)
Api == <<"api">>

RunId(owner, kind, n) == <<owner, kind, n>>

NewRun(owner, gen, props, modelId, op, params, refUrl, cacheKey, skipCache) ==
    [owner |-> owner, gen |-> gen, props |-> props,
     modelId |-> modelId, op |-> op, params |-> params, refUrl |-> refUrl,
     cacheKey |-> cacheKey, skipCache |-> skipCache,
     pc |-> "new", aborted |-> FALSE, armed |-> FALSE, did |-> {}, sent |-> {},
     result |-> None, err |-> None]

Did(r, what) == [r EXCEPT !.did = @ \cup what]

\* An HTTP request: its method, its URL and the names of its headers
Request(method, url, headers) == [method |-> method, url |-> url, headers |-> headers]

\* The run has passed the request to fetch
Send(r, q) == [r EXCEPT !.sent = @ \cup {q}]

\* adapter.getAuthHeader(apiKey).name : the header that carries the credential
AuthHeader == "Authorization"

ClientHeader == "X-VibeImg-Client"

ContentType == "Content-Type"

\* buildHeaders(adapter, apiKey)
buildHeaders(adapter) ==
    {AuthHeader} \cup (IF adapter.corsMode = "proxy" THEN {ClientHeader} ELSE {})

\* `${VibeImgConfig.corsProxyUrl}${encodeURIComponent(url)}`
Proxied(url) == <<"https://proxy/?url=">> \o url

\* A resolveUrl that relays every adapter's requests
resolveUrlAlwaysRelayed(cfg, adapter, url) ==
    IF cfg.corsProxyUrl THEN Proxied(url) ELSE url

\* resolveUrl(url, adapter)
resolveUrl(cfg, adapter, url) ==
    IF adapter.corsMode = "proxy" /\ cfg.corsProxyUrl THEN Proxied(url) ELSE url

\* `${this.endpoint}/images/${key}` : the URL of a key on the storage worker
WorkerUrl(key) == <<"https://worker/images/">> \o key

Throw(r, msg) == [r EXCEPT !.pc = "threw", !.err = msg]

Return(r, url) == [r EXCEPT !.pc = "returned", !.result = url]

\* VibeImgConfig.useServerStorage && this.serverEndpoint (VibeImgStorage)
RemoteEnabled(cfg) == cfg.useServerStorage /\ cfg.storageEndpoint

\* `${cdnBase}/${key}` : the URL of a key on the public CDN
CdnUrl(key) == <<"https://cdn/">> \o key

\* req.url : the provider's endpoint for the operation
AdapterUrl(modelId, op) == <<"https://api.">> \o modelId \o <<"/">> \o op

\* The URL the request goes to: resolveUrl(req.url, adapter)
RequestUrl(cfg, modelId, op) == resolveUrl(cfg, Adapter(modelId), AdapterUrl(modelId, op))

\* makeRequest: the messages of the errors it throws
ApiErrorMsg(details) == <<"api error", ": ", "status 4", "00. details: ">> \o details

RequestFailedMsg(url, why) == <<"request to ">> \o url \o <<" failed: ">> \o why

\* e.name === 'AbortError' ? 'Request timed out' : e.message
AbortedWhy == <<"request ", "timed out">>

FetchTypeError == <<"failed to fetch">>

(***************************************************************************)
(* Core.execute, synchronous part (lines 77-128): validation, then the     *)
(* cache lookup is issued, or with skipCache the key resolver is called.   *)
(***************************************************************************)
\* A prompt check that does not trim
PromptMissingUntrimmed(op, params) ==
    OP_REQUIREMENTS(op).prompt /\ ~Truthy(params.prompt)

PromptMissing(op, params) ==
    OP_REQUIREMENTS(op).prompt /\ ~Truthy(IF params.prompt = None THEN None
                                          ELSE Trim(params.prompt))

RefMissing(op, refUrl) == OP_REQUIREMENTS(op).ref /\ ~Truthy(refUrl)

ExecuteStart(r) ==
    IF ~HasAdapter(r.modelId)
      THEN Throw(r, UnknownModelMsg(r.modelId))
    ELSE IF r.op \notin Range(ALL_OPERATIONS)
      THEN Throw(r, UnknownOperationMsg(r.op))
    ELSE IF r.op \notin Range(Adapter(r.modelId).supportedOps)
      THEN Throw(r, UnsupportedMsg(Adapter(r.modelId), r.op))
    ELSE IF PromptMissing(r.op, r.params)
      THEN Throw(r, RequiresPromptMsg(r.op))
    ELSE IF RefMissing(r.op, r.refUrl)
      THEN Throw(r, RequiresRefMsg(r.op))
    ELSE IF ~r.skipCache
      THEN Did([r EXCEPT !.pc = "lookupLocal"], {"getImage"})
    ELSE Did([r EXCEPT !.pc = "getKey"], {"getKey"})

\* Lines 147-152: adapter.buildRequest, then doFetch -> makeRequest(url, init, signal).
\* The abort listener makeRequest adds only hears an abort that comes later.
\* doFetch (lines 256-279) sends buildHeaders' headers, with Content-Type for
\* a JSON body (both adapters: generate), to resolveUrl(req.url, adapter).
BuildAndSend(r) ==
    Send(Did([r EXCEPT !.pc = "post", !.armed = ~r.aborted], {"buildRequest", "POST"}),
         Request("POST", RequestUrl(config, r.modelId, r.op),
                 buildHeaders(Adapter(r.modelId))
                 \cup (IF r.op = Generate THEN {ContentType} ELSE {})))

\* Lines 129-143, after keyResolver.getKey has answered.  fetch(refUrl,
\* { mode, signal }) with a signal that is aborted already rejects without a
\* request; a data: URL is fetched without the signal (line 181).
AfterGetKey(r, apiKey) ==
    IF ~apiKey THEN Throw(r, NoApiKeyMsg(r.modelId))
    ELSE IF OP_REQUIREMENTS(r.op).ref /\ Truthy(r.refUrl)
      THEN IF r.aborted /\ ~StartsWith(r.refUrl, "data:")
             THEN Did([r EXCEPT !.pc = "fetchRef"], {"fetchRef"})
           ELSE Send(Did([r EXCEPT !.pc = "fetchRef"], {"fetchRef"}),
                     Request("GET", r.refUrl, {}))
    ELSE BuildAndSend(r)

\* A Core.execute that goes on to the key resolver whatever the cache answered
ExecuteIgnoringCache(r, cached) ==
    Did([r EXCEPT !.pc = "getKey"], {"getKey"})

\* Core.execute after storage.getImage has answered (lines 118-128).
ExecuteAfterLookup(r, cached) ==
    IF cached # None THEN Return(r, cached)
    ELSE Did([r EXCEPT !.pc = "getKey"], {"getKey"})

\* VibeImgStorage.storeImage after the local write (lines 307-309):
\* ServerStorage.storeImage issues the PUT when it has an endpoint.
AfterStoreLocal(r, cfg) ==
    IF RemoteEnabled(cfg)
      THEN Send(Did([r EXCEPT !.pc = "storeRemote"], {"PUT"}),
                Request("PUT", WorkerUrl(r.cacheKey), {ContentType, ClientHeader}))
    ELSE [r EXCEPT !.pc = "stored"]

\* VibeImgStorage.getImage after a local miss (lines 329-331):
\* ServerStorage.getImage issues the HEAD when a CDN base is configured.
AfterLocalMiss(r, cfg) ==
    IF RemoteEnabled(cfg) /\ cfg.r2PublicUrl
      THEN Send(Did([r EXCEPT !.pc = "lookupRemote"], {"HEAD"}),
                Request("HEAD", CdnUrl(r.cacheKey), {}))
    ELSE [r EXCEPT !.pc = "missed"]

(***************************************************************************)
(* dom-adapter/useVibeImg.ts : the hook of one <vibe-img>.  The operators  *)
(* below transform a record w = [comp, dom, runs, applied] (the part of    *)
(* the state a handler of the hook can write); an action applies a chain   *)
(* of them and takes the result as the next state.                         *)
(***************************************************************************)
NoError == ClassifiedError("", "", None)

IMG_ERROR_MAX_RETRIES == 2

\* The hook state after useState/useRef initialisation.  abortRef holds the
\* generation whose AbortController it refers to (0: null).  img is the
\* <img> the component renders while status is done: none, shown, or failed
\* (its error event has fired).
InitialComp ==
    [mounted |-> FALSE, status |-> "idle", src |-> <<>>, error |-> NoError,
     showExpiry |-> FALSE, genId |-> 0, refPollCount |-> 0, imgErrorCount |-> 0,
     abortRef |-> 0, img |-> "none", loaderHiding |-> FALSE]

\* VibeImgElement: the condition under which the loader is rendered
LoaderVisible(c) ==
    \/ c.status = "loading"
    \/ c.status = "done" /\ ~c.loaderHiding

\* document.getElementById(id)?.getAttribute(...) for resolveRefForKey
Elems(d) ==
    [id \in DOMAIN d |-> [model |-> d[id].props["model"], prompt |-> d[id].props["prompt"]]]

\* A resolveRef that hands back the reference as written
resolveRefAsWritten(ref, d) == ref

\* document.getElementById(ref.slice(1))?.getAttribute('resolved-url') || null
resolveRef(ref, d) ==
    IF ~StartsWith(ref, "#") THEN ref
    ELSE IF Tail(ref) \notin DOMAIN d THEN None
    ELSE IF Truthy(d[Tail(ref)].resolvedUrl) THEN d[Tail(ref)].resolvedUrl
    ELSE None

Digits == {"0", "1", "2", "3", "4", "5", "6", "7", "8", "9"}

RECURSIVE DigitPrefix(_)
DigitPrefix(s) ==
    IF s # <<>> /\ Head(s) \in Digits THEN <<Head(s)>> \o DigitPrefix(Tail(s)) ELSE <<>>

RECURSIVE StripZeros(_)
StripZeros(s) ==
    IF Len(s) > 1 /\ Head(s) = "0" THEN StripZeros(Tail(s)) ELSE s

NaN == <<"NaN">>

\* The text after an optional sign
Unsigned(s) == IF s # <<>> /\ Head(s) \in {"-", "+"} THEN Tail(s) ELSE s

\* parseInt(s, 10), the number written in decimal (-0 is written "-", "0");
\* NaN without leading digits
ParseInt(s) ==
    IF DigitPrefix(Unsigned(TrimStart(s))) = <<>> THEN NaN
    ELSE (IF StartsWith(TrimStart(s), "-") THEN <<"-">> ELSE <<>>)
           \o StripZeros(DigitPrefix(Unsigned(TrimStart(s))))

\* A number used as a condition: NaN, 0 and -0 are falsy
Falsy(n) == n \in {NaN, <<"0">>, <<"-", "0">>}

\* JSON.parse of the params attribute: an object literal is kept as its text,
\* anything else throws (None)
ParseJson(s) == IF StartsWith(s, "{") /\ s[Len(s)] = "}" THEN s ELSE None

Given(v) == IF Truthy(v) THEN v ELSE None

\* buildParams (lines 750-770)
buildParams(props, th) ==
    [prompt |-> IF ~Truthy(props["prompt"]) THEN None
                ELSE IF Truthy(ThemeOf(th)) THEN props["prompt"] \o <<", ">> \o ThemeOf(th)
                ELSE props["prompt"],
     aspect |-> Given(props["aspect"]),
     style |-> Given(props["img-style"]),
     quality |-> Given(props["quality"]),
     format |-> Given(props["format"]),
     negativePrompt |-> Given(props["negative-prompt"]),
     seed |-> IF ~Truthy(props["seed"]) \/ Falsy(ParseInt(props["seed"]))
              THEN None ELSE ParseInt(props["seed"]),
     rawParams |-> IF Truthy(props["params"]) THEN ParseJson(props["params"]) ELSE None]

NoParams == buildParams(NoProps, None)

getConfigError(props) ==
    IF ~Truthy(props["model"]) THEN NoError
    ELSE IF OpOf(props) \notin Range(ALL_OPERATIONS)
      THEN ClassifiedError("config", "Unknown operation", None)
    ELSE IF OP_REQUIREMENTS(OpOf(props)).prompt /\ ~Truthy(Given(Trim(props["prompt"])))
      THEN ClassifiedError("config", "Prompt missing", None)
    ELSE IF OP_REQUIREMENTS(OpOf(props)).ref /\ ~Truthy(Given(Trim(props["img-ref"])))
      THEN ClassifiedError("config", "Reference image missing", None)
    ELSE NoError

\* A staleness check that never finds the run superseded
SupersededNever(genId, thisGen) == FALSE

\* thisGen !== genId.current
Superseded(genId, thisGen) == thisGen # genId

\* abortRef.current?.abort()
Abort(w, c) ==
    IF RunId(c, "run", w.comp[c].abortRef) \notin DOMAIN w.runs THEN w
    ELSE [w EXCEPT !.runs[RunId(c, "run", w.comp[c].abortRef)].aborted = TRUE]

\* History kept for each component: the generation (by) of the run whose
\* handler last wrote the visible state, the value of genId at that moment
\* (cur) and the operations that run had issued (did); the generation of the
\* last run whose handler found itself superseded and the writer at that
\* moment (dropped); what started the current generation (cause); the number
\* of invalidate-and-re-execute cycles image-load failures have started since
\* the trigger effect last ran (cycles); the cache key of the run that wrote
\* last (key) and of the run that last set resolved-url (urlKey).
NoHistory ==
    [by |-> 0, cur |-> 0, did |-> {}, dropped |-> <<0, 0>>, cause |-> "none",
     cycles |-> 0, key |-> None, urlKey |-> None]

\* A handler of run r writes the visible state of c: remember who wrote.
Wrote(w, c, r) ==
    [w EXCEPT !.applied[c].by = r.gen, !.applied[c].cur = w.comp[c].genId,
              !.applied[c].did = r.did, !.applied[c].key = r.cacheKey]

Because(w, c, cause) == [w EXCEPT !.applied[c].cause = cause]

\* wrapRef.current?.parentElement?.setAttribute('resolved-url', url)
Publish(d, c, url) ==
    IF c \in DOMAIN d THEN [d EXCEPT ![c].resolvedUrl = url] ELSE d

\* A showImage that leaves the loader as it is
showImageKeepingLoader(w, c, r, url) ==
    Wrote([w EXCEPT !.comp[c].src = url, !.comp[c].status = "done",
                    !.comp[c].img = "shown",
                    !.applied[c].urlKey = r.cacheKey,
                    !.dom = Publish(w.dom, c, url)], c, r)

\* showImage (lines 622-629)
showImage(w, c, r, url) ==
    Wrote([w EXCEPT !.comp[c].src = url, !.comp[c].status = "done",
                    !.comp[c].img = "shown", !.comp[c].loaderHiding = TRUE,
                    !.applied[c].urlKey = r.cacheKey,
                    !.dom = Publish(w.dom, c, url)], c, r)

\* setError(classifyError(err)); setStatus('error')
showError(w, c, r, err) ==
    Wrote([w EXCEPT !.comp[c].error = err, !.comp[c].status = "error",
                    !.comp[c].img = "none"], c, r)

showLoading(w, c, r) ==
    Wrote([w EXCEPT !.comp[c].status = "loading", !.comp[c].img = "none"], c, r)

PutRun(w, id, r) == [w EXCEPT !.runs = (id :> r) @@ w.runs]

DidNotResolveMsg(ref) ==
    <<"source image ">> \o Quoted(ref) \o <<" did not resolve in time.">>

\* The chain of a component has run its last handler: nothing refers to it
\* any more.
EndRun(w, id, r) == [w EXCEPT !.runs = [x \in DOMAIN w.runs \ {id} |-> w.runs[x]]]

\* A handler of run r finds thisGen !== genId.current and returns.
Discard(w, c, id, r) ==
    EndRun([w EXCEPT !.applied[c].dropped = <<r.gen, w.applied[c].by>>], id, r)

\* The .then(url => ...) and .catch(err => ...) handlers of doExecute
\* (lines 605-619), run when Core.execute or waitForRef has settled.
Settle(w, c, id, r) ==
    IF r.pc = "returned"
      THEN IF ~Truthy(r.result) \/ Superseded(w.comp[c].genId, r.gen)
             THEN Discard(w, c, id, r)
           ELSE showImage(EndRun(w, id, r), c, r, r.result)
    ELSE IF r.pc = "threw"
      THEN IF Superseded(w.comp[c].genId, r.gen) \/ r.aborted
             THEN Discard(w, c, id, r)
           ELSE showError(EndRun(w, id, r), c, r, classifyError(r.err))
    ELSE PutRun(w, id, r)

\* Step 3 of doExecute (lines 590-603): the generation check, setStatus(
\* 'loading') with setLoaderHiding(false), then core.execute(..., skipCache:
\* true) with the resolved reference.
StartGenerate(w, c, id, r) ==
    IF Superseded(w.comp[c].genId, r.gen) THEN Discard(w, c, id, r)
    ELSE Settle([showLoading(w, c, r) EXCEPT !.comp[c].loaderHiding = FALSE],
                c, id, ExecuteStart(r))

REF_POLL_MAX == 300

\* A poll that goes on whatever the count
pollWithoutCeiling(w, c, id, r) ==
    IF Superseded(w.comp[c].genId, r.gen)
      THEN Settle(w, c, id, Throw(r, <<"cancelled">>))
    ELSE IF resolveRef(r.props["img-ref"], w.dom) # None
      THEN StartGenerate(w, c, id, [r EXCEPT !.refUrl = resolveRef(r.props["img-ref"], w.dom)])
    ELSE PutRun([w EXCEPT !.comp[c].refPollCount = @ + 1], id, [r EXCEPT !.pc = "waitRef"])

\* poll (lines 636-647): the cancel token, the anchor's resolved-url, then
\* refPollCount.current++ >= REF_POLL_MAX, then setTimeout(poll, ...).
poll(w, c, id, r) ==
    IF Superseded(w.comp[c].genId, r.gen)
      THEN Settle(w, c, id, Throw(r, <<"cancelled">>))
    ELSE IF resolveRef(r.props["img-ref"], w.dom) # None
      THEN StartGenerate(w, c, id, [r EXCEPT !.refUrl = resolveRef(r.props["img-ref"], w.dom)])
    ELSE IF w.comp[c].refPollCount >= REF_POLL_MAX
      THEN Settle([w EXCEPT !.comp[c].refPollCount = @ + 1], c, id,
                  Throw(r, DidNotResolveMsg(r.props["img-ref"])))
    ELSE PutRun([w EXCEPT !.comp[c].refPollCount = @ + 1], id, [r EXCEPT !.pc = "waitRef"])

\* waitForRef (lines 632-650): the count starts at 0 and the first poll runs
\* at once.
waitForRef(w, c, id, r) ==
    poll([w EXCEPT !.comp[c].refPollCount = 0], c, id, r)

\* One later poll of waitForRef with the count left out.  giveUp: the count
\* has reached REF_POLL_MAX.
Poll(w, c, id, r, giveUp) ==
    IF Superseded(w.comp[c].genId, r.gen)
      THEN Settle(w, c, id, Throw(r, <<"cancelled">>))
    ELSE IF resolveRef(r.props["img-ref"], w.dom) # None
      THEN StartGenerate(w, c, id, [r EXCEPT !.refUrl = resolveRef(r.props["img-ref"], w.dom)])
    ELSE IF giveUp
      THEN Settle(w, c, id, Throw(r, DidNotResolveMsg(r.props["img-ref"])))
    ELSE PutRun(w, id, [r EXCEPT !.pc = "waitRef"])

\* doExecute after core.lookup has answered (lines 560-588).  old: the
\* entry is older than EXPIRY_WARN_MS.
AfterLookup(w, c, id, r, cached, old) ==
    IF cached # None
      THEN IF Superseded(w.comp[c].genId, r.gen) THEN Discard(w, c, id, r)
           ELSE [showImage(EndRun(w, id, r), c, r, cached) EXCEPT !.comp[c].showExpiry = old]
    ELSE IF Truthy(r.props["img-ref"]) /\ StartsWith(r.props["img-ref"], "#")
      THEN IF Superseded(w.comp[c].genId, r.gen) THEN Discard(w, c, id, r)
           ELSE waitForRef(showLoading(w, c, r), c, id, r)
    ELSE StartGenerate(w, c, id, [r EXCEPT !.refUrl = Given(r.props["img-ref"])])

\* storage.getImage has answered: back in Core.execute (API runs) or in
\* doExecute (core.lookup of a component).
AfterGetImage(w, id, r, cached, old) ==
    IF r.owner = Api THEN PutRun(w, id, ExecuteAfterLookup(r, cached))
    ELSE AfterLookup(w, r.owner, id, r, cached, old)

\* Core.execute has settled: the caller's handlers run.
AfterExecute(w, id, r) ==
    IF r.owner = Api THEN PutRun(w, id, r) ELSE Settle(w, r.owner, id, r)

\* A doExecute that starts the execution and leaves the status as it was
doExecuteWithoutChecking(w, c, props, th) ==
    IF ~Truthy(props["model"])
      THEN [w EXCEPT !.comp[c].status = "idle", !.comp[c].src = <<>>,
                     !.comp[c].img = "none", !.comp[c].loaderHiding = FALSE]
    ELSE IF getConfigError(props) # NoError
      THEN [w EXCEPT !.comp[c].error = getConfigError(props),
                     !.comp[c].status = "error", !.comp[c].img = "none"]
    ELSE LET thisGen == w.comp[c].genId + 1
             r == NewRun(c, thisGen, props, props["model"], OpOf(props),
                         buildParams(props, th), None,
                         CacheKeyOf(props, th, Elems(w.dom)), TRUE)
         IN  PutRun([Abort(w, c) EXCEPT !.comp[c].genId = thisGen,
                                        !.comp[c].abortRef = thisGen,
                                        !.comp[c].error = NoError,
                                        !.comp[c].showExpiry = FALSE,
                                        !.comp[c].img = "none"],
                    RunId(c, "run", thisGen),
                    Did([r EXCEPT !.pc = "lookupLocal"], {"getImage"}))

\* doExecute (lines 514-558): the closure of a render with these props.
doExecute(w, c, props, th) ==
    IF ~Truthy(props["model"])
      THEN [w EXCEPT !.comp[c].status = "idle", !.comp[c].src = <<>>,
                     !.comp[c].img = "none", !.comp[c].loaderHiding = FALSE]
    ELSE IF getConfigError(props) # NoError
      THEN [w EXCEPT !.comp[c].error = getConfigError(props),
                     !.comp[c].status = "error", !.comp[c].img = "none"]
    ELSE LET thisGen == w.comp[c].genId + 1
             r == NewRun(c, thisGen, props, props["model"], OpOf(props),
                         buildParams(props, th), None,
                         CacheKeyOf(props, th, Elems(w.dom)), TRUE)
         IN  PutRun([Abort(w, c) EXCEPT !.comp[c].genId = thisGen,
                                        !.comp[c].abortRef = thisGen,
                                        !.comp[c].status = "checking",
                                        !.comp[c].error = NoError,
                                        !.comp[c].showExpiry = FALSE,
                                        !.comp[c].img = "none"],
                    RunId(c, "run", thisGen),
                    Did([r EXCEPT !.pc = "lookupLocal"], {"getImage"}))

\* A cleanup that supersedes the generation and leaves the signal alone
CleanupWithoutAbort(w, c) ==
    [w EXCEPT !.comp[c].genId = @ + 1]

\* The cleanup of the trigger effect (lines 662-665)
Cleanup(w, c) ==
    [Abort(w, c) EXCEPT !.comp[c].genId = @ + 1]

\* The trigger effect (lines 658-662)
Trigger(w, c, props, th) ==
    doExecute([w EXCEPT !.comp[c].refPollCount = 0, !.comp[c].imgErrorCount = 0,
                        !.applied[c].cycles = 0],
              c, props, th)

(***************************************************************************)
(* The steps of a run: each action is the completion of the operation the  *)
(* run awaits, with every handler that runs on it.                         *)
(***************************************************************************)
World == [comp |-> comp, dom |-> dom, runs |-> runs, applied |-> applied]

Apply(w) ==
    /\ comp' = w.comp
    /\ dom' = w.dom
    /\ runs' = w.runs
    /\ applied' = w.applied

\* IndexDBStorage.getImage(key)?.url
Cached(key) == IF key \in DOMAIN local THEN local[key] ELSE None

Put(f, k, v) == (k :> v) @@ f

Remove(f, k) == [x \in DOMAIN f \ {k} |-> f[x]]

\* IndexDBStorage.getImage has answered (VibeImgStorage.getImage, lines 324-331)
LookupLocal(id, old) ==
    /\ runs[id].pc = "lookupLocal"
    /\ Apply(IF Cached(runs[id].cacheKey) # None
            THEN AfterGetImage(World, id, runs[id], Cached(runs[id].cacheKey), old)
          ELSE IF AfterLocalMiss(runs[id], config).pc = "lookupRemote"
            THEN PutRun(World, id, AfterLocalMiss(runs[id], config))
          ELSE AfterGetImage(World, id, runs[id], None, old))
    /\ UNCHANGED <<local, remote, apiKeys, saved, config, themeAttr, keyVars>>

\* What the HEAD to the CDN can end in: an answer (200 when the CDN holds the
\* key, 404 when it does not), a non-2xx status whatever it holds, a network
\* failure, or no answer within the 5 s of the probe's own timeout.
HeadOutcomes == {"answered", "status", "error", "timeout"}

\* ServerStorage.getImage (lines 195-216): res.ok, and nothing else, is a hit.
HeadHit(o, key) == o = "answered" /\ key \in remote

\* A remote layer whose failed probe makes getImage reject, and Core.execute
\* with it
LookupRemoteRaising(id, o, old) ==
    /\ runs[id].pc = "lookupRemote"
    /\ IF HeadHit(o, runs[id].cacheKey)
         THEN /\ local' = Put(local, runs[id].cacheKey, CdnUrl(runs[id].cacheKey))
              /\ Apply(AfterGetImage(World, id, runs[id], CdnUrl(runs[id].cacheKey), old))
       ELSE IF o = "answered"
         THEN /\ local' = local
              /\ Apply(AfterGetImage(World, id, runs[id], None, old))
       ELSE /\ local' = local
            /\ Apply(AfterExecute(World, id, Throw(runs[id], FetchTypeError)))
    /\ UNCHANGED <<remote, apiKeys, saved, config, themeAttr, keyVars>>

\* A remote hit that is returned and not written to IndexedDB
LookupRemoteWithoutBackfill(id, o, old) ==
    /\ runs[id].pc = "lookupRemote"
    /\ local' = local
    /\ Apply(AfterGetImage(World, id, runs[id],
                           IF HeadHit(o, runs[id].cacheKey)
                             THEN CdnUrl(runs[id].cacheKey) ELSE None, old))
    /\ UNCHANGED <<remote, apiKeys, saved, config, themeAttr, keyVars>>

\* The HEAD to the CDN has answered or failed (ServerStorage.getImage and
\* VibeImgStorage.getImage, lines 332-344): a hit is written to IndexedDB
\* and returned, everything else is a miss.
LookupRemote(id, o, old) ==
    /\ runs[id].pc = "lookupRemote"
    /\ IF HeadHit(o, runs[id].cacheKey)
         THEN /\ local' = Put(local, runs[id].cacheKey, CdnUrl(runs[id].cacheKey))
              /\ Apply(AfterGetImage(World, id, runs[id], CdnUrl(runs[id].cacheKey), old))
       ELSE /\ local' = local
            /\ Apply(AfterGetImage(World, id, runs[id], None, old))
    /\ UNCHANGED <<remote, apiKeys, saved, config, themeAttr, keyVars>>

\* keyResolver.getKey has answered (Core.execute, lines 129-152)
GetKey(id) ==
    /\ runs[id].pc = "getKey"
    /\ Apply(AfterExecute(World, id, AfterGetKey(runs[id], runs[id].modelId \in apiKeys)))
    /\ UNCHANGED <<local, remote, apiKeys, saved, config, themeAttr, keyVars>>

AbortErrorMsg == <<"signal is aborted without reason">>

RefOutcomes == {"ok", "status", "error"}

\* fetchRefImage has settled (lines 178-191)
FetchRef(id, o) ==
    /\ runs[id].pc = "fetchRef"
    /\ Apply(AfterExecute(World, id,
           IF StartsWith(runs[id].refUrl, "data:") THEN BuildAndSend(runs[id])
           ELSE IF runs[id].aborted
             THEN Throw(runs[id], RefFetchFailedMsg(runs[id].refUrl, AbortErrorMsg))
           ELSE CASE o = "ok" -> BuildAndSend(runs[id])
                  [] o = "status" ->
                       Throw(runs[id], RefFetchFailedMsg(runs[id].refUrl, <<"status 4", "04">>))
                  [] o = "error" ->
                       Throw(runs[id], RefFetchFailedMsg(runs[id].refUrl, FetchTypeError))))
    /\ UNCHANGED <<local, remote, apiKeys, saved, config, themeAttr, keyVars>>

\* What a provider can answer to the POST: an image, a non-2xx status with
\* some details, no answer before requestTimeoutMs, a network failure, a body
\* that is not JSON, a JSON body without an image.
PostOutcomes == {"image", "rejected", "refused", "timeout", "unreachable", "nonJson", "empty"}

\* The image a provider returns for a run
ImageUrl(id, r) ==
    <<"https://img.">> \o r.modelId \o <<"/">> \o id[1]

NonJsonMsg(modelId) == Quoted(modelId) \o <<" returned ", "non-json", " response (status 200).">>

EmptyResponseMsg(modelId) == <<"empty response", " from ">> \o Quoted(modelId) \o <<".">>

\* An executeSync that hands a response without an image on to the cache as
\* an empty URL
PostResultStoringEmpty(id, r, o, cfg) ==
    IF r.armed /\ r.aborted
      THEN Throw(r, RequestFailedMsg(RequestUrl(cfg, r.modelId, r.op), AbortedWhy))
    ELSE CASE o = "image" ->
                Did([r EXCEPT !.pc = "storeLocal", !.result = ImageUrl(id, r)], {"storeImage"})
           [] o = "rejected" -> Throw(r, ApiErrorMsg(<<"invalid request">>))
           [] o = "refused" ->
                Throw(r, ApiErrorMsg(<<"billing inactive, ", "configure", " a payment method">>))
           [] o = "timeout" ->
                Throw(r, RequestFailedMsg(RequestUrl(cfg, r.modelId, r.op), AbortedWhy))
           [] o = "unreachable" ->
                Throw(r, RequestFailedMsg(RequestUrl(cfg, r.modelId, r.op), FetchTypeError))
           [] o = "nonJson" -> Throw(r, NonJsonMsg(r.modelId))
           [] o = "empty" ->
                Did([r EXCEPT !.pc = "storeLocal", !.result = <<>>], {"storeImage"})

\* executeSync has settled (lines 195-205): doFetch -> makeRequest, parseJSON,
\* extractImageUrl; on success storage.storeImage is called (line 155).
PostResult(id, r, o, cfg) ==
    IF r.armed /\ r.aborted
      THEN Throw(r, RequestFailedMsg(RequestUrl(cfg, r.modelId, r.op), AbortedWhy))
    ELSE CASE o = "image" ->
                Did([r EXCEPT !.pc = "storeLocal", !.result = ImageUrl(id, r)], {"storeImage"})
           [] o = "rejected" -> Throw(r, ApiErrorMsg(<<"invalid request">>))
           [] o = "refused" ->
                Throw(r, ApiErrorMsg(<<"billing inactive, ", "configure", " a payment method">>))
           [] o = "timeout" ->
                Throw(r, RequestFailedMsg(RequestUrl(cfg, r.modelId, r.op), AbortedWhy))
           [] o = "unreachable" ->
                Throw(r, RequestFailedMsg(RequestUrl(cfg, r.modelId, r.op), FetchTypeError))
           [] o = "nonJson" -> Throw(r, NonJsonMsg(r.modelId))
           [] o = "empty" -> Throw(r, EmptyResponseMsg(r.modelId))

Post(id, o) ==
    /\ runs[id].pc = "post"
    /\ Apply(AfterExecute(World, id, PostResult(id, runs[id], o, config)))
    /\ UNCHANGED <<local, remote, apiKeys, saved, config, themeAttr, keyVars>>

\* A local layer that loses the write
StoreLocalLost(id) ==
    /\ runs[id].pc = "storeLocal"
    /\ local' = local
    /\ Apply(AfterExecute(World, id,
         IF AfterStoreLocal(runs[id], config).pc = "storeRemote"
           THEN AfterStoreLocal(runs[id], config)
         ELSE Return(runs[id], runs[id].result)))
    /\ UNCHANGED <<remote, apiKeys, saved, config, themeAttr, keyVars>>

\* IndexDBStorage.storeImage(key, url) is done (VibeImgStorage.storeImage,
\* lines 303-309); without the remote layer Core.execute returns imageUrl.
StoreLocal(id) ==
    /\ runs[id].pc = "storeLocal"
    /\ local' = Put(local, runs[id].cacheKey, runs[id].result)
    /\ Apply(AfterExecute(World, id,
         IF AfterStoreLocal(runs[id], config).pc = "storeRemote"
           THEN AfterStoreLocal(runs[id], config)
         ELSE Return(runs[id], runs[id].result)))
    /\ UNCHANGED <<remote, apiKeys, saved, config, themeAttr, keyVars>>

\* What the worker can answer to the PUT: a failure, success without a
\* permanent URL, the same URL back, or the permanent CDN URL of the key.
PutOutcomes == {"failed", "stored", "same", "permanent"}

\* A remote layer whose failed PUT makes storeImage reject
StoreRemoteFatal(id, o) ==
    /\ runs[id].pc = "storeRemote"
    /\ remote' = IF o = "failed" THEN remote ELSE remote \cup {runs[id].cacheKey}
    /\ local' = IF o = "permanent"
                  THEN Put(local, runs[id].cacheKey, CdnUrl(runs[id].cacheKey))
                ELSE local
    /\ Apply(AfterExecute(World, id,
                          IF o = "failed" THEN Throw(runs[id], FetchTypeError)
                          ELSE Return(runs[id], runs[id].result)))
    /\ UNCHANGED <<apiKeys, saved, config, themeAttr, keyVars>>

\* The PUT has settled (ServerStorage.storeImage 224-252, VibeImgStorage
\* 310-319); Core.execute returns imageUrl (line 158).
StoreRemote(id, o) ==
    /\ runs[id].pc = "storeRemote"
    /\ remote' = IF o = "failed" THEN remote ELSE remote \cup {runs[id].cacheKey}
    /\ local' = IF o = "permanent"
                  THEN Put(local, runs[id].cacheKey, CdnUrl(runs[id].cacheKey))
                ELSE local
    /\ Apply(AfterExecute(World, id, Return(runs[id], runs[id].result)))
    /\ UNCHANGED <<apiKeys, saved, config, themeAttr, keyVars>>

(***************************************************************************)
(* The page of the component specification: two <vibe-img> elements.       *)
(***************************************************************************)
ElA == <<"a">>

ElB == <<"b">>

CompOrder == <<ElA, ElB>>

PropsAnchor == PropsOf(<<<<"model", Recraft>>, <<"prompt", <<"cat">>>>>>)

PropsDependent ==
    PropsOf(<<<<"model", Recraft>>, <<"op", Upscale>>, <<"img-ref", <<"#", "a">>>>>>)

\* The page with a and, written with the attributes pb, b
Page(pb) ==
    (ElA :> [props |-> PropsAnchor, resolvedUrl |-> None])
      @@ (ElB :> [props |-> pb, resolvedUrl |-> None])

\* The attribute edits a page script makes
Edits == {<<"prompt", <<"dog">>>>, <<"prompt", <<"cat">>>>}

MaxGen == 3

\* The element is connected: the hook runs its first trigger effect.
Mount(c) ==
    /\ c \in DOMAIN dom
    /\ ~comp[c].mounted
    /\ Apply(Trigger(Because([World EXCEPT !.comp[c].mounted = TRUE], c, "mount"),
                     c, dom[c].props, themeAttr))
    /\ UNCHANGED <<local, remote, apiKeys, saved, config, themeAttr, keyVars>>

\* An observed attribute changes: re-render, the effect's cleanup, then the
\* effect with the new doExecute (lines 658-666).
AttrChange(c, e) ==
    /\ c \in DOMAIN dom
    /\ comp[c].mounted
    /\ comp[c].genId + 2 <= MaxGen
    /\ dom[c].props[e[1]] # e[2]
    /\ Apply(Trigger(Because(Cleanup([World EXCEPT !.dom[c].props[e[1]] = e[2]], c),
                             c, "attribute"),
                     c, [dom[c].props EXCEPT ![e[1]] = e[2]], themeAttr))
    /\ UNCHANGED <<local, remote, apiKeys, saved, config, themeAttr, keyVars>>

\* The element is removed from the page: the effect's cleanup runs.
Unmount(c) ==
    /\ c \in DOMAIN dom
    /\ comp[c].mounted
    /\ Apply([Cleanup([World EXCEPT !.comp[c].mounted = FALSE], c)
                EXCEPT !.dom = Remove(dom, c)])
    /\ UNCHANGED <<local, remote, apiKeys, saved, config, themeAttr, keyVars>>

\* The timer of waitForRef fires (setTimeout(poll, REF_POLL_INTERVAL), line 646).
RefTick(id) ==
    /\ runs[id].pc = "waitRef"
    /\ Apply(poll(World, runs[id].owner, id, runs[id]))
    /\ UNCHANGED <<local, remote, apiKeys, saved, config, themeAttr, keyVars>>

\* The timer of waitForRef fires (lines 633-646), at a count left out.
WaitRef(id, giveUp) ==
    /\ runs[id].pc = "waitRef"
    /\ Apply(Poll(World, runs[id].owner, id, runs[id], giveUp))
    /\ UNCHANGED <<local, remote, apiKeys, saved, config, themeAttr, keyVars>>

\* The save button of the key modal (KeyModal.ts lines 103-125), for a
\* provider that has no key yet: storeKey, then the key-saved event is
\* scheduled.
SaveKey(m) ==
    /\ m \notin apiKeys
    /\ apiKeys' = apiKeys \cup {m}
    /\ saved' = saved \cup {m}
    /\ UNCHANGED <<local, remote, config, runs, compVars, keyVars>>

\* The listeners of the key-saved event, in subscription order (lines 670-679)
RECURSIVE NotifyAll(_, _, _, _)
NotifyAll(w, cs, m, th) ==
    IF cs = <<>> THEN w
    ELSE NotifyAll(IF /\ Head(cs) \in DOMAIN w.dom
                      /\ w.comp[Head(cs)].mounted
                      /\ w.dom[Head(cs)].props["model"] = m
                     THEN doExecute(Because([w EXCEPT !.comp[Head(cs)].imgErrorCount = 0],
                                            Head(cs),
                                            IF w.comp[Head(cs)].status = "error"
                                               /\ w.comp[Head(cs)].error.type = "auth"
                                              THEN "key saved after auth error"
                                            ELSE "key saved"),
                                    Head(cs), w.dom[Head(cs)].props, th)
                   ELSE w,
                   Tail(cs), m, th)

\* A key-saved event that no component hears
KeySavedUnheard(m) ==
    /\ m \in saved
    /\ saved' = saved \ {m}
    /\ UNCHANGED <<local, remote, apiKeys, config, runs, compVars, keyVars>>

\* window.dispatchEvent(new CustomEvent('vibeimg:keysaved', ...))
KeySaved(m) ==
    /\ m \in saved
    /\ \A c \in DOMAIN comp \cap DOMAIN dom :
         (/\ comp[c].mounted
          /\ dom[c].props["model"] = m
          /\ getConfigError(dom[c].props) = NoError) => comp[c].genId < MaxGen
    /\ saved' = saved \ {m}
    /\ Apply(NotifyAll(World, CompOrder, m, themeAttr))
    /\ UNCHANGED <<local, remote, apiKeys, config, themeAttr, keyVars>>

ExpiredMsg == <<"image url expired and could not be regenerated.">>

\* An error handler of the <img> without the retry ceiling
ImgErrorWithoutCeiling(c) ==
    /\ c \in DOMAIN dom
    /\ comp[c].mounted
    /\ comp[c].status = "done"
    /\ comp[c].img = "shown"
    /\ Truthy(dom[c].props["model"])
    /\ Apply(PutRun([World EXCEPT !.comp[c].imgErrorCount = @ + 1,
                                  !.comp[c].img = "failed",
                                  !.applied[c].cycles = @ + 1],
                    RunId(c, "inv", comp[c].genId),
                    Did([NewRun(c, comp[c].genId, dom[c].props, dom[c].props["model"],
                                OpOf(dom[c].props), NoParams, None,
                                CacheKeyOf(dom[c].props, themeAttr, Elems(dom)), FALSE)
                           EXCEPT !.pc = "removeLocal"], {"removeItem"})))
    /\ UNCHANGED <<local, remote, apiKeys, saved, config, themeAttr, keyVars>>

\* The error event of the <img> (onImgError, lines 690-715): give up, or
\* count the attempt and start the invalidation of the cache entry.
ImgError(c) ==
    /\ c \in DOMAIN dom
    /\ comp[c].mounted
    /\ comp[c].status = "done"
    /\ comp[c].img = "shown"
    /\ Truthy(dom[c].props["model"])
    /\ Apply(IF comp[c].imgErrorCount >= IMG_ERROR_MAX_RETRIES
               THEN [World EXCEPT !.comp[c].error = classifyError(ExpiredMsg),
                                  !.comp[c].status = "error",
                                  !.comp[c].img = "none"]
             ELSE PutRun([World EXCEPT !.comp[c].imgErrorCount = @ + 1,
                                       !.comp[c].img = "failed",
                                       !.applied[c].cycles = @ + 1],
                         RunId(c, "inv", comp[c].genId),
                         Did([NewRun(c, comp[c].genId, dom[c].props, dom[c].props["model"],
                                     OpOf(dom[c].props), NoParams, None,
                                     CacheKeyOf(dom[c].props, themeAttr, Elems(dom)), FALSE)
                                EXCEPT !.pc = "removeLocal"], {"removeItem"})))
    /\ UNCHANGED <<local, remote, apiKeys, saved, config, themeAttr, keyVars>>

\* .finally(() => doExecute()) : the doExecute of the render onImgError closed over
Retry(w, id, r, th) ==
    doExecute(Because(EndRun(w, id, r), r.owner, "image error"), r.owner, r.props, th)

\* IndexDBStorage.removeItem is done (VibeImgStorage.removeItem, lines 346-349)
RemoveLocal(id) ==
    /\ runs[id].pc = "removeLocal"
    /\ local' = Remove(local, runs[id].cacheKey)
    /\ IF RemoteEnabled(config)
         THEN Apply(PutRun(World, id,
                  Send(Did([runs[id] EXCEPT !.pc = "removeRemote"], {"DELETE"}),
                       Request("DELETE", WorkerUrl(runs[id].cacheKey), {ClientHeader}))))
       ELSE /\ comp[runs[id].owner].genId < MaxGen
            /\ Apply(Retry(World, id, runs[id], themeAttr))
    /\ UNCHANGED <<remote, apiKeys, saved, config, themeAttr, keyVars>>

\* A removal that puts the IndexedDB entry back when the DELETE fails
RemoveRemoteRestoring(id, ok) ==
    /\ runs[id].pc = "removeRemote"
    /\ comp[runs[id].owner].genId < MaxGen
    /\ remote' = IF ok THEN remote \ {runs[id].cacheKey} ELSE remote
    /\ local' = IF ok THEN local
                ELSE Put(local, runs[id].cacheKey, comp[runs[id].owner].src)
    /\ Apply(Retry(World, id, runs[id], themeAttr))
    /\ UNCHANGED <<apiKeys, saved, config, themeAttr, keyVars>>

\* The DELETE has settled (ServerStorage.removeItem 254-265)
RemoveRemote(id, ok) ==
    /\ runs[id].pc = "removeRemote"
    /\ comp[runs[id].owner].genId < MaxGen
    /\ remote' = IF ok THEN remote \ {runs[id].cacheKey} ELSE remote
    /\ local' = local
    /\ Apply(Retry(World, id, runs[id], themeAttr))
    /\ UNCHANGED <<apiKeys, saved, config, themeAttr, keyVars>>

(***************************************************************************)
(* Callers of the API: Core.execute called directly, VibeImg.configure     *)
(* and VibeImg.setup (services.ts).                                        *)
(***************************************************************************)
\* config.ts, lines 29-35, with the endpoint VibeImgStorage was constructed
\* with (services.ts line 95).  A URL option is TRUE when it is set.
DefaultConfig ==
    [corsProxyUrl |-> TRUE, serverStorageEndpoint |-> TRUE, r2PublicUrl |-> TRUE,
     useServerStorage |-> TRUE, storageEndpoint |-> TRUE]

\* Object.assign(VibeImgConfig, overrides)
Overrides == {<<n, v>> : n \in {"r2PublicUrl", "useServerStorage"}, v \in BOOLEAN}

Setup(o) ==
    /\ config[o[1]] # o[2]
    /\ config' = [config EXCEPT ![o[1]] = o[2]]
    /\ UNCHANGED <<local, remote, apiKeys, saved, runs, compVars, keyVars>>

\* VibeImg.configure({ m: key })
ConfigureKey(m) ==
    /\ m \notin apiKeys
    /\ apiKeys' = apiKeys \cup {m}
    /\ UNCHANGED <<local, remote, saved, config, runs, compVars, keyVars>>

ApiModels == {OpenAI, Recraft, <<"dalle">>}

ApiOps == Range(ALL_OPERATIONS) \cup {<<"paint">>}

ApiPrompts == {None, <<Blank, Blank>>, <<"cat">>}

ApiRefs == {None, <<"https://img/", "a.png">>, <<"data:", "image/png;base64,AAAA">>}

ApiKey == <<"vibeimg-", "k">>

Settled(r) == r.pc \in {"returned", "threw"}

\* An entry an earlier visit left in IndexedDB under the key
OldUrl == <<"https://img.", "old">>

\* Core.execute(modelId, params, {cacheKey, op, refUrl, signal, skipCache})
ApiExecute(modelId, op, prompt, refUrl, skipCache) ==
    /\ DOMAIN runs = {}
    /\ runs' = (RunId(Api, "run", 1) :>
                  ExecuteStart(NewRun(Api, 0, NoProps, modelId, op,
                                      [NoParams EXCEPT !.prompt = prompt],
                                      refUrl, ApiKey, skipCache)))
    /\ UNCHANGED <<local, remote, apiKeys, saved, config, compVars, keyVars>>

\* The caller aborts the signal it passed.
ApiAbort(id) ==
    /\ runs[id].owner = Api
    /\ ~Settled(runs[id])
    /\ ~runs[id].aborted
    /\ runs' = [runs EXCEPT ![id].aborted = TRUE]
    /\ UNCHANGED <<local, remote, apiKeys, saved, config, compVars, keyVars>>

(***************************************************************************)
(* Specifications                                                          *)
(***************************************************************************)
NoMarkup == [attrs |-> <<>>, theme |-> None]

EmptyStore ==
    /\ local = <<>>
    /\ apiKeys = {}
    /\ saved = {}
    /\ config = DefaultConfig
    /\ runs = <<>>

NoPage ==
    /\ comp = <<>>
    /\ dom = <<>>
    /\ applied = <<>>
    /\ themeAttr = None

NoKeyCheck ==
    /\ markupA = NoMarkup
    /\ markupB = NoMarkup
    /\ keys = <<>>
    /\ built = NoRequest
    /\ themes = OneTheme

\* The key builder alone
InitKey ==
    /\ KeyInit
    /\ EmptyStore
    /\ remote = {}
    /\ NoPage

NextKey ==
    \/ Reorder
    \/ EditAttr
    \/ EditTheme
    \/ BuildKeys

SpecKey == InitKey /\ [][NextKey]_vars

\* One call of Core.execute through the API, from every state of the stores:
\* IndexedDB may hold an entry of an earlier visit, and the remote layer,
\* shared between visitors, may hold the key.
InitCore ==
    /\ local \in {<<>>, ApiKey :> OldUrl, ApiKey :> CdnUrl(ApiKey)}
    /\ apiKeys = {}
    /\ saved = {}
    /\ config = DefaultConfig
    /\ runs = <<>>
    /\ remote \in {{}, {ApiKey}}
    /\ NoPage
    /\ NoKeyCheck

NextCore ==
    \/ \E id \in DOMAIN runs, old \in BOOLEAN : LookupLocal(id, old)
    \/ \E id \in DOMAIN runs, o \in HeadOutcomes, old \in BOOLEAN : LookupRemote(id, o, old)
    \/ \E id \in DOMAIN runs : GetKey(id)
    \/ \E id \in DOMAIN runs, o \in RefOutcomes : FetchRef(id, o)
    \/ \E id \in DOMAIN runs, o \in PostOutcomes : Post(id, o)
    \/ \E id \in DOMAIN runs : StoreLocal(id)
    \/ \E id \in DOMAIN runs, o \in PutOutcomes : StoreRemote(id, o)
    \/ \E id \in DOMAIN runs : ApiAbort(id)
    \/ \E m \in ApiModels, op \in ApiOps, p \in ApiPrompts, u \in ApiRefs, s \in BOOLEAN :
         ApiExecute(m, op, p, u, s)
    \/ \E m \in Range(RegistryIds) : ConfigureKey(m)
    \/ \E o \in Overrides : Setup(o)

SpecCore == InitCore /\ [][NextCore]_vars

\* One <vibe-img> on the page, with every event its hook handles.
InitOne ==
    /\ EmptyStore
    /\ remote = {}
    /\ dom = (ElA :> [props |-> PropsAnchor, resolvedUrl |-> None])
    /\ comp = (ElA :> InitialComp)
    /\ applied = (ElA :> NoHistory)
    /\ themeAttr = None
    /\ NoKeyCheck

OnePost == {"image", "rejected", "timeout"}

\* The attribute edits of the one-component page: the prompt is rewritten or
\* removed.
OneEdits == Edits \cup {<<"prompt", None>>}

OnePut == {"failed", "permanent"}

NextOne ==
    \/ Mount(ElA)
    \/ \E e \in OneEdits : AttrChange(ElA, e)
    \/ Unmount(ElA)
    \/ ImgError(ElA)
    \/ SaveKey(Recraft)
    \/ KeySaved(Recraft)
    \/ \E id \in DOMAIN runs, old \in BOOLEAN : LookupLocal(id, old)
    \/ \E id \in DOMAIN runs, o \in HeadOutcomes : LookupRemote(id, o, FALSE)
    \/ \E id \in DOMAIN runs : GetKey(id)
    \/ \E id \in DOMAIN runs, o \in OnePost : Post(id, o)
    \/ \E id \in DOMAIN runs : StoreLocal(id)
    \/ \E id \in DOMAIN runs, o \in OnePut : StoreRemote(id, o)
    \/ \E id \in DOMAIN runs : RemoveLocal(id)
    \/ \E id \in DOMAIN runs, ok \in BOOLEAN : RemoveRemote(id, ok)

SpecOne == InitOne /\ [][NextOne]_vars

\* Two <vibe-img> on the page: a, and b that upscales a's image.
Init ==
    /\ EmptyStore
    /\ remote = {}
    /\ dom = Page(PropsDependent)
    /\ comp = [c \in Range(CompOrder) |-> InitialComp]
    /\ applied = [c \in Range(CompOrder) |-> NoHistory]
    /\ themeAttr = None
    /\ NoKeyCheck

PairPost == {"image", "rejected"}

PairRef == {"ok", "error"}

PairPut == {"failed", "permanent"}

Next ==
    \/ \E c \in Range(CompOrder) : Mount(c)
    \/ \E e \in Edits : AttrChange(ElA, e)
    \/ SaveKey(Recraft)
    \/ KeySaved(Recraft)
    \/ \E id \in DOMAIN runs : LookupLocal(id, FALSE)
    \/ \E id \in DOMAIN runs, o \in HeadOutcomes : LookupRemote(id, o, FALSE)
    \/ \E id \in DOMAIN runs, giveUp \in BOOLEAN : WaitRef(id, giveUp)
    \/ \E id \in DOMAIN runs : GetKey(id)
    \/ \E id \in DOMAIN runs, o \in PairRef : FetchRef(id, o)
    \/ \E id \in DOMAIN runs, o \in PairPost : Post(id, o)
    \/ \E id \in DOMAIN runs : StoreLocal(id)
    \/ \E id \in DOMAIN runs, o \in PairPut : StoreRemote(id, o)

Spec == Init /\ [][Next]_vars

\* Two <vibe-img> written with the same attributes, and an empty cache.
InitTwins ==
    /\ EmptyStore
    /\ remote = {}
    /\ dom = Page(PropsAnchor)
    /\ comp = [c \in Range(CompOrder) |-> InitialComp]
    /\ applied = [c \in Range(CompOrder) |-> NoHistory]
    /\ themeAttr = None
    /\ NoKeyCheck

NextTwins ==
    \/ \E c \in Range(CompOrder) : Mount(c)
    \/ SaveKey(Recraft)
    \/ KeySaved(Recraft)
    \/ \E id \in DOMAIN runs : LookupLocal(id, FALSE)
    \/ \E id \in DOMAIN runs, o \in HeadOutcomes : LookupRemote(id, o, FALSE)
    \/ \E id \in DOMAIN runs : GetKey(id)
    \/ \E id \in DOMAIN runs, o \in PairPost : Post(id, o)
    \/ \E id \in DOMAIN runs : StoreLocal(id)
    \/ \E id \in DOMAIN runs, o \in PutOutcomes : StoreRemote(id, o)

SpecTwins == InitTwins /\ [][NextTwins]_vars

(***************************************************************************)
(* Properties                                                              *)
(***************************************************************************)

\* What a markup contributes to its key: each attribute's value with the
\* empty string read as absent, the operation with its default, the theme
\* prompt without surrounding blanks, and for img-ref="#id" the id, model and
\* prompt of the element named (nothing when there is no such element).
NoElem == [model |-> None, prompt |-> None]

Contribution(m) ==
    [n \in Range(PropNames) \cup {"theme"} |->
       CASE n = "op" ->
              IF PropsOf(m.attrs)["op"] \in {None, <<>>} THEN Generate
              ELSE PropsOf(m.attrs)["op"]
         [] n = "theme" ->
              IF m.theme = None \/ TrimEnd(TrimStart(m.theme)) = <<>> THEN None
              ELSE TrimEnd(TrimStart(m.theme))
         [] n = "img-ref" ->
              IF PropsOf(m.attrs)[n] \in {None, <<>>}
                THEN [url |-> None, id |-> None, of |-> NoElem]
              ELSE IF Head(PropsOf(m.attrs)[n]) # "#"
                THEN [url |-> PropsOf(m.attrs)[n], id |-> None, of |-> NoElem]
              ELSE IF Tail(PropsOf(m.attrs)[n]) \notin DOMAIN KeyElems
                THEN [url |-> None, id |-> None, of |-> NoElem]
              ELSE [url |-> None, id |-> Tail(PropsOf(m.attrs)[n]),
                    of |-> KeyElems[Tail(PropsOf(m.attrs)[n])]]
         [] OTHER ->
              IF PropsOf(m.attrs)[n] = <<>> THEN None ELSE PropsOf(m.attrs)[n]]

\* The attributes and theme prompt exactly as written
Literal(m) == [props |-> PropsOf(m.attrs), theme |-> m.theme]

ApiRun == RunId(Api, "run", 1)

\* The operations that reach outside the page: HTTP requests
Http == {"HEAD", "fetchRef", "POST", "PUT", "DELETE"}

\* C2 (as amended): when Core.execute is called without skipCache and the
\* cache lookup finds an entry for the key, execute returns that entry's URL
\* without calling the key resolver, buildRequest or the provider.  An entry
\* in IndexedDB is returned without any HTTP request; an entry that only the
\* remote layer holds is found by one HEAD request to the CDN, which is the
\* only request made.
C2_CacheHitShortCircuit ==
    [][\A id \in DOMAIN runs \cap DOMAIN runs' :
         (runs[id].owner = Api /\ ~runs[id].skipCache) =>
           /\ (/\ runs[id].pc = "lookupLocal"
               /\ runs'[id].pc # "lookupLocal"
               /\ runs[id].cacheKey \in DOMAIN local)
              => (/\ runs'[id].pc = "returned"
                  /\ runs'[id].result = local[runs[id].cacheKey]
                  /\ runs'[id].did = {"getImage"})
           /\ (/\ runs[id].pc = "lookupRemote"
               /\ runs'[id].pc # "lookupRemote"
               /\ runs[id].cacheKey \in DOMAIN local')
              => (/\ runs'[id].pc = "returned"
                  /\ runs[id].cacheKey \in remote
                  /\ runs'[id].result = CdnUrl(runs[id].cacheKey)
                  /\ runs'[id].did = {"getImage", "HEAD"})]_vars

\* C2 witness: a call without skipCache has returned the IndexedDB entry
\* having done nothing but the lookup.
C2_Witness ==
    /\ ApiRun \in DOMAIN runs
    /\ ~runs[ApiRun].skipCache
    /\ runs[ApiRun].pc = "returned"
    /\ runs[ApiRun].result = OldUrl
    /\ runs[ApiRun].did = {"getImage"}

\* C2 as stated: a call without skipCache that is answered from the cache has
\* called neither the key resolver nor buildRequest nor any HTTP endpoint.
C2_AsStated ==
    \A id \in DOMAIN runs :
       (/\ runs[id].owner = Api
        /\ ~runs[id].skipCache
        /\ runs[id].pc = "returned"
        /\ "storeImage" \notin runs[id].did)
       => runs[id].did \cap ({"getKey", "buildRequest"} \cup Http) = {}

\* The prompt is absent, empty or made of blanks only
BlankPrompt(prompt) == prompt = None \/ \A i \in DOMAIN prompt : prompt[i] = Blank

\* The call passes the checks on provider and operation
ValidTarget(r) ==
    /\ r.modelId \in {OpenAI, Recraft}
    /\ r.op \in {Generate, Img2Img, Upscale, RemoveBg, ReplaceBg, Vectorize}
    /\ \E i \in DOMAIN Adapter(r.modelId).supportedOps :
          Adapter(r.modelId).supportedOps[i] = r.op

\* C4: a call for an operation the provider supports, with a required input
\* missing (prompt absent or blank, no refUrl), throws before any cache
\* lookup, key-resolver call or HTTP request; the error is classified as a
\* configuration error and names the missing input (the prompt when both are
\* missing).
C4_MissingInputRejectedFirst ==
    \A id \in DOMAIN runs :
       (/\ runs[id].owner = Api
        /\ ValidTarget(runs[id])
        /\ \/ (OP_REQUIREMENTS(runs[id].op).prompt /\ BlankPrompt(runs[id].params.prompt))
           \/ (OP_REQUIREMENTS(runs[id].op).ref /\ runs[id].refUrl = None))
       => /\ runs[id].pc = "threw"
          /\ runs[id].did = {}
          /\ classifyError(runs[id].err).type = "config"
          /\ IF OP_REQUIREMENTS(runs[id].op).prompt /\ BlankPrompt(runs[id].params.prompt)
               THEN /\ Includes(runs[id].err, <<"prompt">>)
                    /\ classifyError(runs[id].err).title = "Prompt missing"
             ELSE /\ Includes(runs[id].err, <<"reference image">>)
                  /\ classifyError(runs[id].err).title = "Reference image missing"

\* C4 witness: img2img called with a prompt of blanks, a reference and a
\* cached key has thrown without doing anything.
C4_Witness ==
    /\ ApiRun \in DOMAIN runs
    /\ runs[ApiRun].op = Img2Img
    /\ runs[ApiRun].modelId = Recraft
    /\ runs[ApiRun].params.prompt = <<Blank, Blank>>
    /\ runs[ApiRun].refUrl # None
    /\ ApiKey \in DOMAIN local
    /\ runs[ApiRun].pc = "threw"
    /\ runs[ApiRun].did = {}

\* C5: a call with a provider that is not registered, an operation outside
\* the six, or an operation the provider does not support throws an error
\* that lists the valid alternatives, without a cache lookup, key-resolver
\* call or HTTP request, whether or not the cache holds the key.
C5_UnknownTargetRejectedFirst ==
    \A id \in DOMAIN runs :
       (runs[id].owner = Api /\ ~ValidTarget(runs[id]))
       => /\ runs[id].pc = "threw"
          /\ runs[id].did = {}
          /\ IF runs[id].modelId \notin {OpenAI, Recraft}
               THEN Includes(runs[id].err, <<"openai", ", ", "recraft">>)
             ELSE IF runs[id].op \notin {Generate, Img2Img, Upscale, RemoveBg,
                                          ReplaceBg, Vectorize}
               THEN Includes(runs[id].err,
                             <<"generate", ", ", "img2img", ", ", "upscale", ", ",
                               "remove-bg", ", ", "replace-bg", ", ", "vectorize">>)
             ELSE runs[id].modelId = OpenAI
                  /\ Includes(runs[id].err,
                              <<"generate", ", ", "img2img", ", ", "replace-bg">>)

\* C5 witness: an unknown operation was rejected although the cache holds
\* the key.
C5_Witness ==
    /\ ApiRun \in DOMAIN runs
    /\ runs[ApiRun].modelId = Recraft
    /\ runs[ApiRun].op = <<"paint">>
    /\ ~runs[ApiRun].skipCache
    /\ ApiKey \in DOMAIN local
    /\ runs[ApiRun].pc = "threw"
    /\ runs[ApiRun].did = {}

\* C6 as stated: when the lookup missed or was skipped and the key resolver
\* has no credential, the call fails with an error that names the provider
\* and is classified 'auth', nothing was fetched, built, sent or stored; and
\* no other failure is classified 'auth'.
C6_AsStated ==
    \A id \in DOMAIN runs :
       (runs[id].owner = Api /\ runs[id].pc = "threw") =>
          /\ ("getKey" \in runs[id].did /\ "fetchRef" \notin runs[id].did
                                       /\ "buildRequest" \notin runs[id].did)
             => (/\ classifyError(runs[id].err).type = "auth"
                 /\ classifyError(runs[id].err).subject = runs[id].modelId
                 /\ runs[id].did \cap {"POST", "storeImage", "PUT"} = {})
          /\ classifyError(runs[id].err).type = "auth"
             => ("getKey" \in runs[id].did /\ "fetchRef" \notin runs[id].did
                                          /\ "buildRequest" \notin runs[id].did)

\* The part of C6 that holds: a call that fails for want of a credential
\* fails with an 'auth' error naming the provider, having fetched, built,
\* sent and stored nothing.
MissingKeyIsAuth ==
    \A id \in DOMAIN runs :
       (/\ runs[id].owner = Api
        /\ runs[id].pc = "threw"
        /\ "getKey" \in runs[id].did
        /\ runs[id].did \cap {"fetchRef", "buildRequest"} = {})
       => /\ classifyError(runs[id].err).type = "auth"
          /\ classifyError(runs[id].err).subject = runs[id].modelId
          /\ runs[id].did \subseteq {"getImage", "HEAD", "getKey"}

\* What the page shows of a component: status, src, error, expiry badge and
\* the resolved-url attribute of its host element
VisibleOf(cs, d, c) ==
    <<cs[c].status, cs[c].src, cs[c].error, cs[c].showExpiry,
      IF c \in DOMAIN d THEN d[c].resolvedUrl ELSE None>>

\* Run id stepped in this transition: it ended or its record changed
Stepped(id) == id \notin DOMAIN runs' \/ runs'[id] # runs[id]

\* The guard of the continuations: whenever a step of a run changes its
\* component's visible state, that run is the one of the current generation,
\* and the run that last wrote was the current one when it wrote.
OnlyCurrentGenerationWrites ==
    /\ [](\A c \in DOMAIN applied : applied[c].by = applied[c].cur)
    /\ [][\A id \in DOMAIN runs :
            (/\ id[2] = "run"
             /\ Stepped(id)
             /\ comp'[runs[id].owner].genId = comp[runs[id].owner].genId
             /\ VisibleOf(comp', dom', runs[id].owner) # VisibleOf(comp, dom, runs[id].owner))
            => runs[id].gen = comp[runs[id].owner].genId]_vars

\* The latest doExecute call ended at the configuration check: it is the one
\* call that shows a 'config' error, and every later call that starts an
\* execution clears it.
ConfigShown(c) == comp[c].status = "error" /\ comp[c].error.type = "config"

\* C1: once a later doExecute call has been made, no continuation of an
\* execution started before it changes the component's visible state.  While
\* the outcome of the latest call (a 'config' error) is shown, no step of a
\* run changes status, src, error, expiry badge or resolved-url.
C1_AsStated ==
    [][\A id \in DOMAIN runs :
         (/\ id[2] = "run"
          /\ Stepped(id)
          /\ comp'[runs[id].owner].genId = comp[runs[id].owner].genId
          /\ VisibleOf(comp', dom', runs[id].owner) # VisibleOf(comp, dom, runs[id].owner))
         => ~ConfigShown(runs[id].owner)]_vars

\* C1 witness: the 'config' error of the latest doExecute call is still in
\* the error slot while the run of generation 3, started before that call,
\* has moved the component to loading.
C1_Witness ==
    /\ comp[ElA].status = "loading"
    /\ comp[ElA].error.type = "config"
    /\ comp[ElA].genId = 3
    /\ applied[ElA].by = 3
    /\ getConfigError(dom[ElA].props) # NoError

\* The steps of the runs of a component whose image never fails to load
RunSteps ==
    \/ \E id \in DOMAIN runs, old \in BOOLEAN : LookupLocal(id, old)
    \/ \E id \in DOMAIN runs, o \in HeadOutcomes : LookupRemote(id, o, FALSE)
    \/ \E id \in DOMAIN runs : GetKey(id)
    \/ \E id \in DOMAIN runs, o \in OnePost : Post(id, o)
    \/ \E id \in DOMAIN runs : StoreLocal(id)
    \/ \E id \in DOMAIN runs, o \in OnePut : StoreRemote(id, o)

\* One <vibe-img> and the key modal: the component is mounted, edited and
\* unmounted, keys are saved and the key-saved event is dispatched.
NextKeySaved ==
    \/ Mount(ElA)
    \/ \E e \in OneEdits : AttrChange(ElA, e)
    \/ Unmount(ElA)
    \/ SaveKey(Recraft)
    \/ KeySaved(Recraft)
    \/ RunSteps

\* Every awaited operation settles: IndexedDB answers, and every request is
\* bounded by a timeout (requestTimeoutMs, 5 s for the HEAD).
SpecKeySaved == InitOne /\ [][NextKeySaved]_vars /\ WF_vars(RunSteps)

\* C7: when the key-saved event for its provider fires, a mounted component
\* that shows the 'auth' error starts a new execution in that step (status
\* checking, the key being stored); that execution then ends in done, or in
\* error when the generation fails, unless the component is unmounted or
\* started again in between.
C7_RetryOnKeySaved ==
    /\ [][(/\ Recraft \in saved
           /\ Recraft \notin saved'
           /\ ElA \in DOMAIN dom
           /\ comp[ElA].mounted
           /\ dom[ElA].props["model"] = Recraft
           /\ comp[ElA].status = "error"
           /\ comp[ElA].error.type = "auth")
          => (/\ comp'[ElA].status = "checking"
              /\ comp'[ElA].genId = comp[ElA].genId + 1
              /\ RunId(ElA, "run", comp'[ElA].genId) \in DOMAIN runs'
              /\ Recraft \in apiKeys)]_vars
    /\ (applied[ElA].cause = "key saved after auth error" /\ comp[ElA].status = "checking")
         ~> \/ comp[ElA].status \in {"done", "error"}
            \/ applied[ElA].cause # "key saved after auth error"
            \/ ~comp[ElA].mounted

\* C7 witness: the execution started by the key-saved event after an 'auth'
\* error has ended in done.
C7_Witness ==
    /\ applied[ElA].cause = "key saved after auth error"
    /\ comp[ElA].status = "done"
    /\ "POST" \in applied[ElA].did

\* pc of run id left stage pc in this transition
Left(id, stage) ==
    /\ runs[id].pc = stage
    /\ id \notin DOMAIN runs' \/ runs'[id].pc # stage

\* C3: when an execution has generated R under key k, the write of step
\* storeImage leaves the cache mapping k to R; the answer of the remote layer
\* changes that entry only to the permanent URL of k; and a component whose
\* lookup finds an entry under its key while it is still the latest execution
\* shows that entry's URL with no key resolution, request building or POST of
\* its own.  Components written with the same attributes look up the same key.
C3_CacheServesIdenticalComponent ==
    /\ [](\A i, j \in DOMAIN runs :
            (runs[i].props = runs[j].props /\ runs[i].props["img-ref"] = None)
            => runs[i].cacheKey = runs[j].cacheKey)
    /\ [][\A id \in DOMAIN runs :
            /\ Left(id, "storeLocal") =>
                 /\ runs[id].cacheKey \in DOMAIN local'
                 /\ local'[runs[id].cacheKey] = runs[id].result
            /\ Left(id, "storeRemote") =>
                 /\ runs[id].cacheKey \in DOMAIN local'
                 /\ local'[runs[id].cacheKey]
                      \in {local[runs[id].cacheKey], CdnUrl(runs[id].cacheKey)}
            /\ (/\ Left(id, "lookupLocal")
                /\ id[2] = "run"
                /\ runs[id].cacheKey \in DOMAIN local
                /\ ~Superseded(comp[runs[id].owner].genId, runs[id].gen)) =>
                 /\ id \notin DOMAIN runs'
                 /\ local' = local
                 /\ comp'[runs[id].owner].status = "done"
                 /\ comp'[runs[id].owner].src = local[runs[id].cacheKey]
                 /\ applied'[runs[id].owner].did = {"getImage"}]_vars

\* C3 witness: on the page of two identical components a generated its image
\* with a POST, and b shows the same image from its lookup alone.
C3_Witness ==
    /\ dom[ElA].props = dom[ElB].props
    /\ comp[ElA].status = "done"
    /\ "POST" \in applied[ElA].did
    /\ comp[ElB].status = "done"
    /\ applied[ElB].did = {"getImage"}
    /\ comp[ElB].src = comp[ElA].src
    /\ local[CacheKeyOf(dom[ElA].props, themeAttr, Elems(dom))] = comp[ElA].src

\* C3 as stated: of two components with identical attributes, the one that
\* resolved from the cache shows the reference R the other one generated.
C3_AsStated ==
    \A c, d \in DOMAIN comp \cap DOMAIN dom :
        (/\ c # d
         /\ dom[c].props = dom[d].props
         /\ comp[c].status = "done"
         /\ "POST" \in applied[c].did
         /\ comp[d].status = "done"
         /\ applied[d].did = {"getImage"})
        => comp[d].src = comp[c].src

\* The element a '#id' reference names
Anchor(ref) == Tail(ref)

IsIdRef(ref) == Truthy(ref) /\ Head(ref) = "#"

\* The stages of a run before Core.execute is called
BeforeExecute == {"lookupLocal", "lookupRemote", "waitRef"}

\* C8: a run of a component whose img-ref is '#id' calls Core.execute only
\* after its own lookup missed and only in a step in which the referenced
\* element carries a resolved-url; the refUrl it passes is that value.  Until
\* then it has resolved no key, fetched no reference and sent no request.
C8_WaitsForResolvedUrl ==
    /\ [](\A id \in DOMAIN runs :
            (IsIdRef(runs[id].props["img-ref"]) /\ runs[id].pc \in BeforeExecute)
            => runs[id].did \subseteq {"getImage", "HEAD"})
    /\ [][\A id \in DOMAIN runs \cap DOMAIN runs' :
            (/\ IsIdRef(runs[id].props["img-ref"])
             /\ runs[id].pc \in BeforeExecute
             /\ runs'[id].pc \notin BeforeExecute)
            => /\ runs[id].pc = "lookupLocal" => runs[id].cacheKey \notin DOMAIN local
               /\ runs[id].pc = "lookupRemote" => local' = local
               /\ Anchor(runs[id].props["img-ref"]) \in DOMAIN dom
               /\ Truthy(dom[Anchor(runs[id].props["img-ref"])].resolvedUrl)
               /\ runs'[id].refUrl = dom[Anchor(runs[id].props["img-ref"])].resolvedUrl
               /\ "getKey" \in runs'[id].did]_vars

\* C8 witness: b's run is fetching the reference image from the URL in a's
\* resolved-url attribute.
C8_Witness ==
    \E id \in DOMAIN runs :
        /\ runs[id].owner = ElB
        /\ IsIdRef(runs[id].props["img-ref"])
        /\ runs[id].pc = "fetchRef"
        /\ Truthy(dom[ElA].resolvedUrl)
        /\ runs[id].refUrl = dom[ElA].resolvedUrl

\* '' for an attribute that is not written
Written(v) == IF v = None THEN <<>> ELSE v

\* C9: every execution a '#id' component starts has, in the step that starts
\* it, issued its lookup under the key built from its own attributes and the
\* anchor's id, model and prompt as written in the DOM in that step, whatever
\* the anchor's status and resolved-url are.
C9_KeyFromAnchorAttributes ==
    [][\A id \in DOMAIN runs' \ DOMAIN runs :
         (/\ id[2] = "run"
          /\ IsIdRef(runs'[id].props["img-ref"])
          /\ Anchor(runs'[id].props["img-ref"]) \in DOMAIN dom')
         => /\ runs'[id].pc = "lookupLocal"
            /\ runs'[id].did = {"getImage"}
            /\ runs'[id].cacheKey =
                 buildRawCacheKey(runs'[id].props, OpOf(runs'[id].props), themeAttr,
                   <<"#">> \o Anchor(runs'[id].props["img-ref"]) \o <<":">>
                     \o Written(dom'[Anchor(runs'[id].props["img-ref"])].props["model"])
                     \o <<":">>
                     \o Written(dom'[Anchor(runs'[id].props["img-ref"])].props["prompt"]))]_vars

\* C9 witness: b's lookup is in flight while the anchor has shown nothing yet
\* (not mounted or still generating, no resolved-url).
C9_Witness ==
    \E id \in DOMAIN runs :
        /\ runs[id].owner = ElB
        /\ IsIdRef(runs[id].props["img-ref"])
        /\ runs[id].pc = "lookupLocal"
        /\ comp[ElA].status \in {"idle", "loading"}
        /\ dom[ElA].resolvedUrl = None

\* The names obj can carry, and the attribute each one is read from
KeyNames ==
    {"model", "op", "prompt", "theme", "aspect", "style", "quality", "format",
     "negprompt", "seed", "params", "ref"}

AttrOfKey(k) ==
    CASE k = "style" -> "img-style"
      [] k = "negprompt" -> "negative-prompt"
      [] k = "ref" -> "img-ref"
      [] OTHER -> k

\* Markup m writes the attribute obj name k is read from
WritesKey(m, k) ==
    IF k = "theme" THEN m.theme # None ELSE HasAttr(m.attrs, AttrOfKey(k))

\* The key of markup m from a builder that keeps only the obj names in known
KeyKnowing(m, known) ==
    <<"vibeimg-">> \o sha256(
        <<"{">>
        \o JsonMembers(SortEntries(SelectSeq(
              KeyEntries(PropsOf(m.attrs), OpOf(PropsOf(m.attrs)), m.theme,
                         RefForKey(PropsOf(m.attrs), KeyElems)),
              LAMBDA e : e[1] \in known)))
        \o <<"}">>)

\* The key of m is the key over the attributes it writes (and, with others,
\* the names in always), and the key of a builder that does not know any one
\* name outside always that m does not write.
AbsentContributesNothing(m, key, always) ==
    /\ key = KeyKnowing(m, {k \in KeyNames : WritesKey(m, k)} \cup always)
    /\ \A k \in KeyNames \ always :
          ~WritesKey(m, k) => key = KeyKnowing(m, KeyNames \ {k})

FailedProbes == HeadOutcomes \ {"answered"}

\* C12: VibeImgStorage.getImage never raises because of the remote layer.
\* When the HEAD probe fails, times out or answers non-2xx, the lookup ends as
\* "not found": IndexedDB is left as it was, the run does not throw, and a
\* Core.execute waiting for the lookup goes on to the key resolver exactly as
\* after a miss, from where it generates.
C12_RemoteFailureIsNotFound ==
    [][\A id \in DOMAIN runs, o \in FailedProbes, old \in BOOLEAN :
         LookupRemote(id, o, old) =>
           /\ local' = local
           /\ id \in DOMAIN runs' => runs'[id].pc # "threw" /\ runs'[id].err = None
           /\ runs[id].owner = Api =>
                runs'[id] = [runs[id] EXCEPT !.pc = "getKey",
                                             !.did = @ \cup {"getKey"}]]_vars

\* C12 witness: the CDN holds the key, the probe of a Core.execute did not
\* find it, and the call has sent the generation request to the provider.
C12_Witness ==
    /\ ApiRun \in DOMAIN runs
    /\ runs[ApiRun].cacheKey \in remote
    /\ runs[ApiRun].cacheKey \notin DOMAIN local
    /\ runs[ApiRun].pc = "post"
    /\ {"getImage", "HEAD", "getKey", "POST"} \subseteq runs[ApiRun].did

(***************************************************************************)
(* Calls of Core.execute one after the other on one cache key: each call   *)
(* starts when the one before it has settled.                              *)
(***************************************************************************)
MaxCalls == 2

Call(n) == RunId(Api, "run", n)

\* await VibeImg.execute(...) again, with the same cacheKey
ApiExecuteNext(n, skipCache) ==
    /\ n = Cardinality(DOMAIN runs) + 1
    /\ \A id \in DOMAIN runs : Settled(runs[id])
    /\ runs' = runs @@ (Call(n) :>
                 ExecuteStart(NewRun(Api, 0, NoProps, Recraft, Generate,
                                     [NoParams EXCEPT !.prompt = <<"cat">>],
                                     None, ApiKey, skipCache)))
    /\ UNCHANGED <<local, remote, apiKeys, saved, config, compVars, keyVars>>

InitStore ==
    /\ EmptyStore
    /\ remote \in {{}, {ApiKey}}
    /\ NoPage
    /\ NoKeyCheck

StorePost == {"image", "rejected"}

NextStore ==
    \/ \E id \in DOMAIN runs : LookupLocal(id, FALSE)
    \/ \E id \in DOMAIN runs, o \in HeadOutcomes : LookupRemote(id, o, FALSE)
    \/ \E id \in DOMAIN runs : GetKey(id)
    \/ \E id \in DOMAIN runs, o \in StorePost : Post(id, o)
    \/ \E id \in DOMAIN runs : StoreLocal(id)
    \/ \E id \in DOMAIN runs, o \in PutOutcomes : StoreRemote(id, o)
    \/ \E n \in 1..MaxCalls, s \in BOOLEAN : ApiExecuteNext(n, s)
    \/ ConfigureKey(Recraft)
    \/ \E o \in Overrides : Setup(o)

SpecStore == InitStore /\ [][NextStore]_vars

\* The call found the key on the CDN: one HEAD, nothing generated
RemoteHit(r) == r.pc = "returned" /\ r.did = {"getImage", "HEAD"}

\* C13: getImage answers from IndexedDB when it holds the key, without a
\* probe of the remote layer; when IndexedDB misses and the probe hits, the
\* CDN URL is written to IndexedDB and returned, so that the next lookup of
\* the key is answered from IndexedDB without a probe.
C13_LocalFirstThenBackfill ==
    /\ [][\A id \in DOMAIN runs \cap DOMAIN runs' :
            /\ (/\ runs[id].pc = "lookupLocal"
                /\ runs'[id].pc # "lookupLocal"
                /\ runs[id].cacheKey \in DOMAIN local)
               => (/\ runs'[id].pc = "returned"
                   /\ runs'[id].result = local[runs[id].cacheKey]
                   /\ "HEAD" \notin runs'[id].did
                   /\ local' = local)
            /\ (/\ runs[id].pc = "lookupRemote"
                /\ runs'[id].pc = "returned")
               => (/\ runs[id].cacheKey \in remote
                   /\ runs[id].cacheKey \in DOMAIN local'
                   /\ local'[runs[id].cacheKey] = CdnUrl(runs[id].cacheKey)
                   /\ runs'[id].result = CdnUrl(runs[id].cacheKey))]_vars
    /\ [](\A n \in 1..MaxCalls :
            (/\ Call(n) \in DOMAIN runs
             /\ RemoteHit(runs[Call(n)])
             /\ Call(n + 1) \in DOMAIN runs
             /\ ~runs[Call(n + 1)].skipCache
             /\ runs[Call(n + 1)].pc # "lookupLocal")
            => (/\ runs[Call(n + 1)].pc = "returned"
                /\ runs[Call(n + 1)].did = {"getImage"}
                /\ runs[Call(n + 1)].result = runs[Call(n)].result))

\* C13 witness: IndexedDB was empty, the first call was answered by the
\* CDN, and the second call has been answered from IndexedDB with no request.
C13_Witness ==
    /\ Call(1) \in DOMAIN runs
    /\ Call(2) \in DOMAIN runs
    /\ RemoteHit(runs[Call(1)])
    /\ runs[Call(2)].pc = "returned"
    /\ runs[Call(2)].did = {"getImage"}
    /\ runs[Call(2)].result = CdnUrl(ApiKey)

\* The call that started last
LastCall == Call(Cardinality(DOMAIN runs))

\* C14: storeImage(k, u) writes u to IndexedDB before the PUT to the remote
\* layer is issued; when the PUT is done IndexedDB maps k to the permanent
\* URL if the worker returned one different from u, and to u otherwise
\* (remote layer disabled, PUT failed, no or the same permanent URL); a failed
\* PUT does not make storeImage, or the Core.execute awaiting it, fail.
C14_StoreLocalThenPermanent ==
    /\ [][\A id \in DOMAIN runs \cap DOMAIN runs' :
            /\ (runs[id].pc = "storeLocal" /\ runs'[id].pc # "storeLocal")
               => (/\ "PUT" \notin runs[id].did
                   /\ remote' = remote
                   /\ local' = Put(local, runs[id].cacheKey, runs[id].result)
                   /\ IF RemoteEnabled(config)
                        THEN runs'[id].pc = "storeRemote" /\ "PUT" \in runs'[id].did
                      ELSE runs'[id].pc = "returned" /\ "PUT" \notin runs'[id].did)
            /\ \A o \in PutOutcomes :
                 StoreRemote(id, o)
                 => (/\ runs'[id].pc = "returned"
                     /\ runs'[id].result = runs[id].result
                     /\ local[runs[id].cacheKey] = runs[id].result
                     /\ local' = Put(local, runs[id].cacheKey,
                                     IF o = "permanent" THEN CdnUrl(runs[id].cacheKey)
                                     ELSE runs[id].result))]_vars
    /\ [](\A id \in DOMAIN runs :
            (id = LastCall /\ runs[id].pc = "returned" /\ "storeImage" \in runs[id].did)
            => (/\ runs[id].cacheKey \in DOMAIN local
                /\ local[runs[id].cacheKey] \in {runs[id].result, CdnUrl(runs[id].cacheKey)}
                /\ local[runs[id].cacheKey] # runs[id].result
                   => "PUT" \in runs[id].did /\ runs[id].cacheKey \in remote))

\* C14 witness: a call has generated an image and returned its URL; the PUT
\* was answered with a permanent URL, which IndexedDB now holds in its place.
C14_Witness ==
    /\ DOMAIN runs = {Call(1)}
    /\ runs[Call(1)].pc = "returned"
    /\ {"storeImage", "PUT"} \subseteq runs[Call(1)].did
    /\ ApiKey \in remote
    /\ local[ApiKey] = CdnUrl(ApiKey)
    /\ runs[Call(1)].result # CdnUrl(ApiKey)

(***************************************************************************)
(* One component whose attributes stay as written: its image can fail to   *)
(* load, keys are saved, and the page turns the remote layer on and off.   *)
(***************************************************************************)
ExpiryPost == {"image", "rejected"}

NextExpiry ==
    \/ Mount(ElA)
    \/ ImgError(ElA)
    \/ SaveKey(Recraft)
    \/ KeySaved(Recraft)
    \/ \E id \in DOMAIN runs, old \in BOOLEAN : LookupLocal(id, old)
    \/ \E id \in DOMAIN runs, o \in HeadOutcomes : LookupRemote(id, o, FALSE)
    \/ \E id \in DOMAIN runs : GetKey(id)
    \/ \E id \in DOMAIN runs, o \in ExpiryPost : Post(id, o)
    \/ \E id \in DOMAIN runs : StoreLocal(id)
    \/ \E id \in DOMAIN runs, o \in OnePut : StoreRemote(id, o)
    \/ \E id \in DOMAIN runs : RemoveLocal(id)
    \/ \E id \in DOMAIN runs, ok \in BOOLEAN : RemoveRemote(id, ok)
    \/ \E o \in Overrides : Setup(o)

SpecExpiry == InitOne /\ [][NextExpiry]_vars

\* C15: removeItem removes the key from IndexedDB whatever the configuration;
\* with the remote layer enabled it then issues the DELETE, and without it
\* issues none; when the DELETE fails the removal still ends without an error
\* (the caller goes on exactly as after a DELETE that succeeded), the CDN
\* keeps the key, and IndexedDB is left without the entry.
C15_RemoveLocalAlways ==
    [][\A id \in DOMAIN runs :
         /\ runs[id].pc = "removeLocal" /\ (id \notin DOMAIN runs' \/ runs'[id] # runs[id])
            => (/\ local' = Remove(local, runs[id].cacheKey)
                /\ remote' = remote
                /\ "DELETE" \notin runs[id].did
                /\ IF RemoteEnabled(config)
                     THEN /\ id \in DOMAIN runs'
                          /\ runs'[id].pc = "removeRemote"
                          /\ "DELETE" \in runs'[id].did
                   ELSE id \notin DOMAIN runs')
         /\ RemoveRemote(id, FALSE)
            => (/\ local' = local
                /\ remote' = remote
                /\ id \notin DOMAIN runs'
                /\ \A x \in DOMAIN runs' : runs'[x].pc # "threw"
                /\ comp' = Retry(World, id, runs[id], themeAttr).comp)
         /\ RemoveRemote(id, TRUE)
            => (/\ local' = local
                /\ remote' = remote \ {runs[id].cacheKey}
                /\ comp' = Retry(World, id, runs[id], themeAttr).comp)]_vars

\* C15 witness: the image failed to load, its entry was removed from
\* IndexedDB, the DELETE failed (the CDN still holds the key), and the
\* re-execution has found IndexedDB empty and is probing the CDN.
C15_Witness ==
    /\ ElA \in DOMAIN comp
    /\ comp[ElA].imgErrorCount >= 1
    /\ \E id \in DOMAIN runs :
         /\ runs[id].pc = "lookupRemote"
         /\ runs[id].cacheKey \in remote
         /\ runs[id].cacheKey \notin DOMAIN local
         /\ \A x \in DOMAIN runs : x = id

\* How the same call ends when the provider does not answer within
\* requestTimeoutMs and nobody aborts
TimedOut(id, r) == PostResult(id, [r EXCEPT !.aborted = FALSE], "timeout", config)

\* The caller's signal was tripped while the POST of the call was in flight,
\* and the call has ended
CancelledInFlight(r) ==
    /\ r.owner = Api
    /\ r.armed
    /\ r.aborted
    /\ Settled(r)
    /\ "storeImage" \notin r.did

\* C16 as stated: when the signal is tripped while the request is in flight,
\* Core.execute ends as cancelled, an outcome that differs from the one of
\* a timeout and from the one of an ordinary error.
C16_AsStated ==
    \A id \in DOMAIN runs :
       CancelledInFlight(runs[id])
       => (/\ runs[id].err # TimedOut(id, runs[id]).err
           /\ classifyError(runs[id].err).type \notin {"timeout", "unknown", "network"})

\* The aborted call has been rejected with the error of a timeout
C16_Witness ==
    /\ ApiRun \in DOMAIN runs
    /\ CancelledInFlight(runs[ApiRun])
    /\ runs[ApiRun].pc = "threw"
    /\ runs[ApiRun].err = TimedOut(ApiRun, runs[ApiRun]).err
    /\ classifyError(runs[ApiRun].err).type = "timeout"

(***************************************************************************)
(* One component while the page changes under it: attributes are edited,   *)
(* the prompt of the enclosing <vibe-theme> changes, the element is        *)
(* removed.                                                                *)
(***************************************************************************)
\* The prompts the page gives its <vibe-theme>
PageThemes == {None, <<"warm">>}

\* The 'vibeimg:themechange' listeners (lines 474-478): setThemeVer gives
\* every mounted hook a new doExecute, so its trigger effect is cleaned up
\* and run again (lines 658-666).
RECURSIVE ThemeListeners(_, _, _)
ThemeListeners(w, cs, th) ==
    IF cs = <<>> THEN w
    ELSE ThemeListeners(IF Head(cs) \in DOMAIN w.dom /\ w.comp[Head(cs)].mounted
                          THEN Trigger(Because(Cleanup(w, Head(cs)), Head(cs), "theme"),
                                       Head(cs), w.dom[Head(cs)].props, th)
                        ELSE w,
                        Tail(cs), th)

\* Element.closest('vibe-theme')?.getAttribute('prompt') of a host whose
\* <vibe-theme> ancestors carry these prompt attributes, nearest first
closestOutermost(ancestors) ==
    IF Len(ancestors) = 0 THEN None ELSE ancestors[Len(ancestors)]

closest(ancestors) ==
    IF Len(ancestors) = 0 THEN None ELSE Head(ancestors)

\* VibeThemeElement.attributeChangedCallback: the prompt of the i-th theme
\* around the components changes and the element dispatches
\* 'vibeimg:themechange', which bubbles to the document.
ThemePrompt(i, th) ==
    /\ i \in DOMAIN themes.ancestors
    /\ th # themes.ancestors[i]
    /\ \A c \in DOMAIN dom : comp[c].mounted => comp[c].genId + 2 <= MaxGen
    /\ LET now == [themes.ancestors EXCEPT ![i] = th]
       IN  /\ themes' = [themes EXCEPT !.ancestors = now, !.target = <<"ancestor">>]
           /\ themeAttr' = closest(now)
           /\ Apply(ThemeListeners(World, CompOrder, closest(now)))
    /\ UNCHANGED <<local, remote, apiKeys, saved, config, markupA, markupB, keys, built>>

\* The prompt of a theme that has no component inside changes: its event
\* reaches the same document listeners.
AsidePrompt(th) ==
    /\ th # themes.aside
    /\ \A c \in DOMAIN dom : comp[c].mounted => comp[c].genId + 2 <= MaxGen
    /\ themes' = [themes EXCEPT !.aside = th, !.target = <<"aside">>]
    /\ Apply(ThemeListeners(World, CompOrder, themeAttr))
    /\ UNCHANGED <<local, remote, apiKeys, saved, config, themeAttr, markupA, markupB,
                   keys, built>>

\* The prompt of the theme nearest to the components changes.
ThemeChange(th) == ThemePrompt(1, th)

\* props.alt of the latest render
AltOf(props) == IF "alt" \in DOMAIN props THEN props["alt"] ELSE None

AltTexts == {<<"a cat">>, <<"a pet">>}

\* The observed attribute alt changes (index.ts, OBSERVED_ATTRS): the element
\* renders again with the new props.alt; no dependency of doExecute (lines
\* 652-654) has changed, so no effect runs.
AltChange(c, v) ==
    /\ c \in DOMAIN dom
    /\ comp[c].mounted
    /\ AltOf(dom[c].props) # v
    /\ dom' = [dom EXCEPT ![c].props = ("alt" :> v) @@ @]
    /\ UNCHANGED <<local, remote, apiKeys, saved, config, runs, comp, themeAttr,
                   applied, keyVars>>

NextCancel ==
    \/ Mount(ElA)
    \/ \E e \in OneEdits : AttrChange(ElA, e)
    \/ \E v \in AltTexts : AltChange(ElA, v)
    \/ \E th \in PageThemes : ThemeChange(th)
    \/ Unmount(ElA)
    \/ ConfigureKey(Recraft)
    \/ \E id \in DOMAIN runs, old \in BOOLEAN : LookupLocal(id, old)
    \/ \E id \in DOMAIN runs, o \in HeadOutcomes : LookupRemote(id, o, FALSE)
    \/ \E id \in DOMAIN runs : GetKey(id)
    \/ \E id \in DOMAIN runs, o \in OnePost : Post(id, o)
    \/ \E id \in DOMAIN runs : StoreLocal(id)
    \/ \E id \in DOMAIN runs, o \in OnePut : StoreRemote(id, o)

SpecCancel == InitOne /\ [][NextCancel]_vars

\* The execution abortRef refers to is still running
InFlight(c) == RunId(c, "run", comp[c].abortRef) \in DOMAIN runs

\* After the step the in-flight execution of c has its signal aborted and its
\* generation is no longer the current one.
Cancelled(c) ==
    /\ RunId(c, "run", comp[c].abortRef) \in DOMAIN runs'
    /\ runs'[RunId(c, "run", comp[c].abortRef)].aborted
    /\ Superseded(comp'[c].genId, runs[RunId(c, "run", comp[c].abortRef)].gen)

\* An attribute the execution depends on has a new value
ExecutionAttrChanged(c) ==
    /\ c \in DOMAIN dom'
    /\ \E n \in Range(PropNames) : dom'[c].props[n] # dom[c].props[n]

CounterResets ==
    {"mount", "attribute", "theme", "key saved", "key saved after auth error"}

\* C18 (as amended): between two resets of the component's failure counter
\* (by the trigger effect or by a key-saved event for its model), image-load
\* failures start at most 2 invalidate-and-re-execute cycles; the load
\* failure after them puts the component into the terminal "expired" error
\* and starts neither an invalidation nor an execution.
C18_RetryCeilingBetweenResets ==
    /\ [](\A c \in DOMAIN comp : comp[c].imgErrorCount <= IMG_ERROR_MAX_RETRIES)
    /\ [][\A c \in DOMAIN dom :
            /\ ImgError(c)
               => IF comp[c].imgErrorCount >= IMG_ERROR_MAX_RETRIES
                    THEN /\ comp'[c].status = "error"
                         /\ comp'[c].error = classifyError(ExpiredMsg)
                         /\ runs' = runs
                         /\ local' = local
                         /\ comp'[c].genId = comp[c].genId
                         /\ applied'[c].cycles = applied[c].cycles
                  ELSE /\ comp'[c].imgErrorCount = comp[c].imgErrorCount + 1
                       /\ applied'[c].cycles = applied[c].cycles + 1
                       /\ RunId(c, "inv", comp[c].genId) \in DOMAIN runs'
            /\ comp'[c].imgErrorCount < comp[c].imgErrorCount
               => /\ comp'[c].imgErrorCount = 0
                  /\ applied'[c].cause \in CounterResets
                  /\ applied'[c].cause \in {"key saved", "key saved after auth error"}
                     => saved' # saved]_vars

\* C18 witness: two cycles have been spent and the third load failure has
\* put the component into the terminal error, with nothing left running.
C18_Witness ==
    /\ ElA \in DOMAIN comp
    /\ comp[ElA].status = "error"
    /\ comp[ElA].error = classifyError(ExpiredMsg)
    /\ comp[ElA].imgErrorCount = IMG_ERROR_MAX_RETRIES
    /\ applied[ElA].cycles = IMG_ERROR_MAX_RETRIES
    /\ DOMAIN runs = {}

\* C18 as stated: while the attributes stay as they are, image-load failures
\* start at most 2 invalidate-and-re-execute cycles.
C18_AsStated ==
    \A c \in DOMAIN applied : applied[c].cycles <= IMG_ERROR_MAX_RETRIES

(***************************************************************************)
(* The dependent component b waits for its anchor a, every poll counted:   *)
(* a may be mounted late or never, its generation may fail, b may be       *)
(* edited or removed while it waits.                                       *)
(***************************************************************************)
NextRef ==
    \/ \E c \in Range(CompOrder) : Mount(c)
    \/ \E e \in Edits : AttrChange(ElB, e)
    \/ Unmount(ElB)
    \/ ConfigureKey(Recraft)
    \/ \E id \in DOMAIN runs : LookupLocal(id, FALSE)
    \/ \E id \in DOMAIN runs, o \in HeadOutcomes : LookupRemote(id, o, FALSE)
    \/ \E id \in DOMAIN runs : RefTick(id)
    \/ \E id \in DOMAIN runs : GetKey(id)
    \/ \E id \in DOMAIN runs, o \in PairRef : FetchRef(id, o)
    \/ \E id \in DOMAIN runs, o \in PairPost : Post(id, o)
    \/ \E id \in DOMAIN runs : StoreLocal(id)
    \/ \E id \in DOMAIN runs, o \in PairPut : StoreRemote(id, o)

SpecRef == Init /\ [][NextRef]_vars

\* Run id is inside waitForRef, between two polls
Waiting(id) == id \in DOMAIN runs /\ runs[id].pc = "waitRef"

\* C19: each poll of waitForRef (1) rejects as cancelled, with nothing shown,
\* when its execution has been superseded; (2) otherwise resolves with the
\* anchor's resolved-url when there is one, and the execution goes on with it
\* as its reference; (3) otherwise gives up when REF_POLL_MAX (300) intervals
\* have been waited, and the component shows the error naming the reference;
\* (4) otherwise counts one more interval and waits.  A waiting execution has
\* issued nothing but its cache lookup, a poll touches neither cache layer,
\* and the count of a current execution stays within 1..REF_POLL_MAX, so no
\* poll loop goes on for ever.
C19_RefPollBounded ==
    /\ [](\A id \in DOMAIN runs :
            Waiting(id) =>
              /\ runs[id].did \cap ({"getKey", "buildRequest"} \cup Http) \subseteq {"HEAD"}
              /\ runs[id].refUrl = None
              /\ ~Superseded(comp[runs[id].owner].genId, runs[id].gen)
                 => comp[runs[id].owner].refPollCount \in 1..REF_POLL_MAX)
    /\ [][\A id \in DOMAIN runs :
            RefTick(id) =>
              /\ local' = local
              /\ remote' = remote
              /\ IF Superseded(comp[runs[id].owner].genId, runs[id].gen)
                   THEN /\ id \notin DOMAIN runs'
                        /\ comp' = comp
                        /\ dom' = dom
                 ELSE IF resolveRef(runs[id].props["img-ref"], dom) # None
                   THEN /\ comp'[runs[id].owner].refPollCount
                             = comp[runs[id].owner].refPollCount
                        /\ id \in DOMAIN runs'
                           => /\ runs'[id].pc = "getKey"
                              /\ runs'[id].refUrl = dom[ElA].resolvedUrl
                 ELSE IF comp[runs[id].owner].refPollCount >= REF_POLL_MAX
                   THEN /\ id \notin DOMAIN runs'
                        /\ comp'[runs[id].owner].status = "error"
                        /\ comp'[runs[id].owner].error
                             = classifyError(DidNotResolveMsg(runs[id].props["img-ref"]))
                 ELSE /\ runs' = runs
                      /\ comp'[runs[id].owner].refPollCount
                           = comp[runs[id].owner].refPollCount + 1]_vars

\* C19 witness: the anchor never published a URL; b has waited REF_POLL_MAX
\* intervals and shows the error that names "#a".
C19_Witness ==
    /\ ElB \in DOMAIN dom
    /\ dom[ElA].resolvedUrl = None
    /\ comp[ElB].refPollCount = REF_POLL_MAX + 1
    /\ comp[ElB].status = "error"
    /\ comp[ElB].error = classifyError(DidNotResolveMsg(<<"#", "a">>))
    /\ \A id \in DOMAIN runs : runs[id].owner # ElB

(***************************************************************************)
(* Core.executeAsync (lines 209-252) for an async adapter the page has     *)
(* registered with ModelRegistry.register: the POST, then the polling      *)
(* loop.  The run record carries the loop index i and the number of poll   *)
(* requests issued (polls).                                                *)
(***************************************************************************)
MAX_ATTEMPTS == 60

\* polling.url : the URL adapter.getPollingInfo(json) gives
PollUrl == <<"https://api.", "flux", "/poll">>

MissingPollingMsg(id) == Quoted(id) \o <<" is async but missing polling methods.">>

RequestAbortedMsg == <<"request ", "aborted">>

AsyncTimedOutMsg(id) ==
    <<"request ", "timed out", ": ">> \o Quoted(id) \o <<" did not complete in 120s.">>

\* What the provider can answer to the POST of an async adapter
AsyncPostOutcomes == {"accepted", "rejected"}

\* What a poll can end in: parsePollingResponse returns null, returns a
\* string, or raises; the provider answers with a non-2xx status.
PollOutcomes == {"pending", "image", "failed", "status"}

\* The head of the loop (lines 228-230): i < MAX_ATTEMPTS, the signal, sleep;
\* after the loop, the time-out error (lines 249-251).
LoopTop(r) ==
    IF r.i >= MAX_ATTEMPTS THEN Throw(r, AsyncTimedOutMsg(r.modelId))
    ELSE IF r.aborted THEN Throw(r, RequestAbortedMsg)
    ELSE [r EXCEPT !.pc = "sleep"]

\* Lines 215-219: the polling methods are checked, then doFetch sends the POST.
executeAsync(r, polling) ==
    IF ~polling THEN Throw(r, MissingPollingMsg(r.modelId))
    ELSE Send(Did([r EXCEPT !.pc = "asyncPost", !.armed = ~r.aborted], {"POST"}),
              Request("POST", RequestUrl(config, r.modelId, r.op),
                      buildHeaders(Adapter(r.modelId)) \cup {ContentType}))

\* Lines 219-228: the POST has settled; parseJSON, getPollingInfo, i = 0.
AfterAsyncPost(r, o) ==
    IF r.armed /\ r.aborted
      THEN Throw(r, RequestFailedMsg(RequestUrl(config, r.modelId, r.op), AbortedWhy))
    ELSE IF o = "rejected" THEN Throw(r, ApiErrorMsg(<<"invalid request">>))
    ELSE LoopTop([r EXCEPT !.i = 0])

\* Lines 230-237: sleep is over, makeRequest(pollUrl, GET, signal) is sent.
AfterSleep(r) ==
    Send(Did([r EXCEPT !.pc = "poll", !.armed = ~r.aborted, !.polls = @ + 1], {"GET"}),
         Request("GET", resolveUrl(config, Adapter(r.modelId), PollUrl),
                 buildHeaders(Adapter(r.modelId))))

\* A polling loop that goes on as long as the answer is pending
AfterPollWithoutCeiling(id, r, o) ==
    IF r.armed /\ r.aborted THEN Throw(r, RequestFailedMsg(resolveUrl(config, Adapter(r.modelId), PollUrl),
                                                AbortedWhy))
    ELSE CASE o = "image" ->
                Did([r EXCEPT !.pc = "storeLocal", !.result = ImageUrl(id, r)], {"storeImage"})
           [] o = "failed" -> Throw(r, <<"generation failed">>)
           [] o = "status" -> Throw(r, ApiErrorMsg(<<"not found">>))
           [] o = "pending" -> [r EXCEPT !.pc = "sleep", !.i = @ + 1]

\* Lines 237-246: the poll has settled; parseJSON, parsePollingResponse, then
\* the image is returned to Core.execute (which stores it, line 155) or the
\* loop goes round.
AfterPoll(id, r, o) ==
    IF r.armed /\ r.aborted THEN Throw(r, RequestFailedMsg(resolveUrl(config, Adapter(r.modelId), PollUrl),
                                                AbortedWhy))
    ELSE CASE o = "image" ->
                Did([r EXCEPT !.pc = "storeLocal", !.result = ImageUrl(id, r)], {"storeImage"})
           [] o = "failed" -> Throw(r, <<"generation failed">>)
           [] o = "status" -> Throw(r, ApiErrorMsg(<<"not found">>))
           [] o = "pending" -> LoopTop([r EXCEPT !.i = @ + 1])

\* Core.execute has validated the call, found no cache entry and a key, built
\* the request and calls executeAsync (lines 150-151).  polling: the adapter
\* has getPollingInfo and parsePollingResponse.
AsyncExecute(polling) ==
    /\ DOMAIN runs = {}
    /\ Flux \in apiKeys
    /\ runs' = (RunId(Api, "run", 1) :>
                  executeAsync([i |-> 0, polls |-> 0]
                                 @@ Did(NewRun(Api, 0, NoProps, Flux, Generate,
                                               [NoParams EXCEPT !.prompt = <<"cat">>],
                                               None, ApiKey, FALSE),
                                        {"getImage", "getKey", "buildRequest"}),
                               polling))
    /\ UNCHANGED <<local, remote, apiKeys, saved, config, compVars, keyVars>>

AsyncPost(id, o) ==
    /\ runs[id].pc = "asyncPost"
    /\ Apply(AfterExecute(World, id, AfterAsyncPost(runs[id], o)))
    /\ UNCHANGED <<local, remote, apiKeys, saved, config, themeAttr, keyVars>>

AsyncSleep(id) ==
    /\ runs[id].pc = "sleep"
    /\ Apply(AfterExecute(World, id, AfterSleep(runs[id])))
    /\ UNCHANGED <<local, remote, apiKeys, saved, config, themeAttr, keyVars>>

AsyncPoll(id, o) ==
    /\ runs[id].pc = "poll"
    /\ Apply(AfterExecute(World, id, AfterPoll(id, runs[id], o)))
    /\ UNCHANGED <<local, remote, apiKeys, saved, config, themeAttr, keyVars>>

InitAsync ==
    /\ EmptyStore
    /\ remote = {}
    /\ NoPage
    /\ NoKeyCheck

NextAsync ==
    \/ ConfigureKey(Flux)
    \/ \E polling \in BOOLEAN : AsyncExecute(polling)
    \/ \E id \in DOMAIN runs, o \in AsyncPostOutcomes : AsyncPost(id, o)
    \/ \E id \in DOMAIN runs : AsyncSleep(id)
    \/ \E id \in DOMAIN runs, o \in PollOutcomes : AsyncPoll(id, o)
    \/ \E id \in DOMAIN runs : ApiAbort(id)
    \/ \E id \in DOMAIN runs : StoreLocal(id)
    \/ \E id \in DOMAIN runs, o \in PutOutcomes : StoreRemote(id, o)

SpecAsync == InitAsync /\ [][NextAsync]_vars

\* C20: executeAsync issues at most MAX_ATTEMPTS (60) poll requests.  A poll
\* whose response parses to a string ends the polling with that image; a poll
\* whose parse raises, or whose request fails, fails the execution; when the
\* 60th poll is still pending the execution fails with an error classified
\* as a timeout; once the signal is aborted no further iteration starts: a
\* poll in flight fails, and a pending answer ends the loop.
C20_PollingBounded ==
    /\ [](\A id \in DOMAIN runs : runs[id].polls <= MAX_ATTEMPTS)
    /\ [][\A id \in DOMAIN runs, o \in PollOutcomes :
            AsyncPoll(id, o) =>
              /\ runs'[id].polls = runs[id].polls
              /\ IF runs[id].armed /\ runs[id].aborted
                   THEN runs'[id].pc = "threw"
                 ELSE CASE o = "image" ->
                             /\ runs'[id].pc = "storeLocal"
                             /\ runs'[id].result = ImageUrl(id, runs[id])
                        [] o \in {"failed", "status"} ->
                             /\ runs'[id].pc = "threw"
                             /\ classifyError(runs'[id].err).type # "timeout"
                        [] o = "pending" ->
                             IF runs[id].polls = MAX_ATTEMPTS
                               THEN /\ runs'[id].pc = "threw"
                                    /\ runs'[id].err = AsyncTimedOutMsg(Flux)
                                    /\ classifyError(runs'[id].err).type = "timeout"
                             ELSE IF runs[id].aborted
                               THEN runs'[id].pc = "threw"
                             ELSE runs'[id].pc = "sleep"]_vars
    /\ [][\A id \in DOMAIN runs \cap DOMAIN runs' :
            (runs[id].aborted /\ runs'[id].pc = "sleep") => runs[id].pc = "sleep"]_vars

\* C20 witness: 60 polls were answered "pending" and the call, which nobody
\* aborted, has failed with the error classified as a timeout.
C20_Witness ==
    /\ ApiRun \in DOMAIN runs
    /\ runs[ApiRun].polls = MAX_ATTEMPTS
    /\ ~runs[ApiRun].aborted
    /\ runs[ApiRun].pc = "threw"
    /\ classifyError(runs[ApiRun].err).type = "timeout"

(***************************************************************************)
(* Timeouts.  makeRequest arms setTimeout(controller.abort,                *)
(* requestTimeoutMs) for the provider POST and ServerStorage.getImage a    *)
(* 5 s timer for the HEAD, so these two steps are taken whatever the       *)
(* server does; IndexedDB and the key resolver answer by themselves.       *)
(* fetchRefImage calls fetch(refUrl, { mode, signal }) with the caller's   *)
(* signal only: a data: URL needs no server and an aborted signal rejects  *)
(* the fetch, and nothing else settles it when the server is silent.       *)
(***************************************************************************)
TimerSteps ==
    \E id \in DOMAIN runs :
       \/ Post(id, "timeout")
       \/ \E old \in BOOLEAN : LookupRemote(id, "timeout", old)
       \/ \E old \in BOOLEAN : LookupLocal(id, old)
       \/ GetKey(id)
       \/ StoreLocal(id)
       \/ /\ runs[id].aborted \/ StartsWith(runs[id].refUrl, "data:")
          /\ FetchRef(id, "ok")

\* One Core.execute call whose timers fire and whose local operations answer
SpecTimers == InitCore /\ [][NextCore]_vars /\ WF_vars(TimerSteps)

\* Run id has an HTTP call of the execution pending
HttpPending(id) ==
    /\ id \in DOMAIN runs
    /\ runs[id].pc \in {"post", "fetchRef"}

\* C21 as stated: every HTTP call made for an execution, the generation
\* request and the reference-image fetch alike, is settled in the end
\* whatever the server does; none stays pending forever.
C21_AsStated == HttpPending(RunId(Api, "run", 1)) ~> ~HttpPending(RunId(Api, "run", 1))

\* C21 witness: the reference-image fetch of an execution is pending on an
\* http(s) URL and the caller has not aborted.
C21_Witness ==
    /\ RunId(Api, "run", 1) \in DOMAIN runs
    /\ runs[RunId(Api, "run", 1)].pc = "fetchRef"
    /\ ~StartsWith(runs[RunId(Api, "run", 1)].refUrl, "data:")
    /\ ~runs[RunId(Api, "run", 1)].aborted

\* The provider POST alone is bounded by the request timeout: it ends in
\* the stored image or in a thrown error.
PostBounded ==
    (HttpPending(RunId(Api, "run", 1)) /\ runs[RunId(Api, "run", 1)].pc = "post")
      ~> (/\ RunId(Api, "run", 1) \in DOMAIN runs
          /\ runs[RunId(Api, "run", 1)].pc # "post")

(***************************************************************************)
(* The status of one component under every event its hook handles: mount,  *)
(* attribute edits (the prompt rewritten or removed, the model removed or  *)
(* written back), a theme change, a failed image load, a saved key,        *)
(* removal from the page.                                                  *)
(***************************************************************************)
MachineEdits == OneEdits \cup {<<"model", None>>, <<"model", Recraft>>}

NextMachine ==
    \/ NextOne
    \/ \E e \in MachineEdits : AttrChange(ElA, e)
    \/ \E th \in PageThemes : ThemeChange(th)

\* The page is written with a complete <vibe-img> or with one that lacks its
\* prompt.
InitMachine ==
    /\ EmptyStore
    /\ remote = {}
    /\ \E p \in {PropsAnchor, [PropsAnchor EXCEPT !["prompt"] = None]} :
          dom = (ElA :> [props |-> p, resolvedUrl |-> None])
    /\ comp = (ElA :> InitialComp)
    /\ applied = (ElA :> NoHistory)
    /\ themeAttr = None
    /\ NoKeyCheck

SpecMachine == InitMachine /\ [][NextMachine]_vars

\* The transitions of the documented machine (lines 374-378 and the
\* re-trigger of a done component)
Documented ==
    {<<"idle", "checking">>, <<"checking", "done">>, <<"checking", "loading">>,
     <<"loading", "done">>, <<"loading", "error">>, <<"done", "checking">>}

\* The transitions the hook makes besides them: a configuration error shown
\* by doExecute from any status, an execution restarted while it is checking
\* or loading or after an error, the terminal image-load failure, the model
\* attribute removed, and a run that goes on after doExecute has shown a
\* configuration error without superseding it.
Undocumented ==
    {<<"idle", "error">>, <<"checking", "error">>, <<"done", "error">>,
     <<"loading", "checking">>, <<"error", "checking">>,
     <<"checking", "idle">>, <<"loading", "idle">>, <<"done", "idle">>,
     <<"error", "idle">>,
     <<"error", "loading">>, <<"error", "done">>}

\* The status of a changes in this step
StatusChanges ==
    /\ ElA \in DOMAIN dom
    /\ ElA \in DOMAIN dom'
    /\ comp'[ElA].status # comp[ElA].status

\* C22 (amended): every change of status is a documented transition or one
\* of the eleven others the hook makes; idle->loading, idle->done and
\* done->loading never occur.  Status becomes checking only in a step that
\* starts a new execution, idle only when the model attribute is absent, and
\* done->checking is caused by an attribute change, a theme change, a saved
\* key or the retry after a failed image load.
C22_StatusMachine ==
    [][StatusChanges =>
         /\ <<comp[ElA].status, comp'[ElA].status>> \in Documented \cup Undocumented
         /\ comp'[ElA].status = "checking" =>
              /\ comp'[ElA].genId > comp[ElA].genId
              /\ RunId(ElA, "run", comp'[ElA].genId) \in DOMAIN runs'
              /\ runs'[RunId(ElA, "run", comp'[ElA].genId)].pc = "lookupLocal"
         /\ comp'[ElA].status = "idle" => ~Truthy(dom'[ElA].props["model"])
         /\ (comp[ElA].status = "done" /\ comp'[ElA].status = "checking") =>
              applied'[ElA].cause \in {"attribute", "theme", "key saved", "image error"}]_vars

\* C22 witness: after the 'auth' error of its first execution (idle, checking,
\* loading, error) the component was started again by the key-saved event
\* and is loading again.
C22_Witness ==
    /\ ElA \in DOMAIN dom
    /\ applied[ElA].cause = "key saved after auth error"
    /\ comp[ElA].status = "loading"
    /\ comp[ElA].genId = 2

\* C22 as stated: every change of status is one of the six documented
\* transitions, done->checking being caused by an attribute or theme change.
C22_AsStated ==
    [][StatusChanges =>
         /\ <<comp[ElA].status, comp'[ElA].status>> \in Documented
         /\ (comp[ElA].status = "done" /\ comp'[ElA].status = "checking") =>
              applied'[ElA].cause \in {"attribute", "theme"}]_vars

\* core.lookup of run id answers with an entry in this step
LookupHits(id) ==
    \E old \in BOOLEAN :
       \/ LookupLocal(id, old) /\ Cached(runs[id].cacheKey) # None
       \/ \E o \in HeadOutcomes :
            LookupRemote(id, o, old) /\ HeadHit(o, runs[id].cacheKey)

\* core.lookup of run id answers null in this step
LookupMisses(id) ==
    \E old \in BOOLEAN :
       \/ /\ LookupLocal(id, old)
          /\ Cached(runs[id].cacheKey) = None
          /\ AfterLocalMiss(runs[id], config).pc # "lookupRemote"
       \/ \E o \in HeadOutcomes :
            LookupRemote(id, o, old) /\ ~HeadHit(o, runs[id].cacheKey)

SetupOptions ==
    {<<n, v>> : n \in {"corsProxyUrl", "serverStorageEndpoint", "r2PublicUrl",
                        "useServerStorage"},
                v \in BOOLEAN}

\* One component whose image expires, on a page that calls setup with any
\* of the options.
NextSetup ==
    \/ Mount(ElA)
    \/ ImgError(ElA)
    \/ ConfigureKey(Recraft)
    \/ \E id \in DOMAIN runs, old \in BOOLEAN : LookupLocal(id, old)
    \/ \E id \in DOMAIN runs, o \in HeadOutcomes : LookupRemote(id, o, FALSE)
    \/ \E id \in DOMAIN runs : GetKey(id)
    \/ \E id \in DOMAIN runs, o \in ExpiryPost : Post(id, o)
    \/ \E id \in DOMAIN runs : StoreLocal(id)
    \/ \E id \in DOMAIN runs, o \in OnePut : StoreRemote(id, o)
    \/ \E id \in DOMAIN runs : RemoveLocal(id)
    \/ \E id \in DOMAIN runs, ok \in BOOLEAN : RemoveRemote(id, ok)
    \/ \E o \in SetupOptions : Setup(o)

SpecSetup == InitOne /\ [][NextSetup]_vars

\* Run id issues the PUT or the DELETE of the remote layer in this step
IssuesRemoteWrite(id) ==
    /\ id \in DOMAIN runs'
    /\ runs'[id].pc \in {"storeRemote", "removeRemote"}
    /\ id \notin DOMAIN runs \/ runs[id].pc # runs'[id].pc

\* C24 as stated: once setup has set the remote-storage endpoint to null, no
\* cache operation issues a PUT or a DELETE to the remote layer.
C24_AsStated ==
    [][\A id \in DOMAIN runs' :
          IssuesRemoteWrite(id) => config.serverStorageEndpoint]_vars

\* C24 witness: setup has set the endpoint to null while remote caching is
\* left on, and an execution is about to store its image.
C24_Witness ==
    /\ ~config.serverStorageEndpoint
    /\ config.useServerStorage
    /\ \E id \in DOMAIN runs : runs[id].pc = "storeLocal"

(***************************************************************************)
(* The params attribute.  One component whose markup carries raw           *)
(* parameters, written as a JSON object or as text JSON.parse rejects;     *)
(* the page rewrites the attribute.                                        *)
(***************************************************************************)
JsonParams == <<"{", Quote, "style", Quote, ":", Quote, "vector", Quote, "}">>

BrokenParams == <<"{", "style", ":", "vector">>

ParamsTexts == {JsonParams, BrokenParams}

InitParams ==
    /\ EmptyStore
    /\ remote = {}
    /\ \E t \in ParamsTexts :
          dom = (ElA :> [props |-> [PropsAnchor EXCEPT !["params"] = t],
                         resolvedUrl |-> None])
    /\ comp = (ElA :> InitialComp)
    /\ applied = (ElA :> NoHistory)
    /\ themeAttr = None
    /\ NoKeyCheck

NextParams ==
    \/ Mount(ElA)
    \/ \E t \in ParamsTexts : AttrChange(ElA, <<"params", t>>)
    \/ Unmount(ElA)
    \/ ConfigureKey(Recraft)
    \/ \E id \in DOMAIN runs, old \in BOOLEAN : LookupLocal(id, old)
    \/ \E id \in DOMAIN runs, o \in HeadOutcomes : LookupRemote(id, o, FALSE)
    \/ \E id \in DOMAIN runs : GetKey(id)
    \/ \E id \in DOMAIN runs, o \in OnePost : Post(id, o)
    \/ \E id \in DOMAIN runs : StoreLocal(id)
    \/ \E id \in DOMAIN runs, o \in OnePut : StoreRemote(id, o)

SpecParams == InitParams /\ [][NextParams]_vars

\* The params attribute is written and JSON.parse rejects it
MalformedParams(props) ==
    Truthy(props["params"]) /\ ParseJson(props["params"]) = None

\* C25 as stated: a mounted component whose params attribute is not valid
\* JSON shows a configuration error, and no execution of that markup has
\* sent a generation request or asked for a cache write.
C25_AsStated ==
    (ElA \in DOMAIN dom /\ comp[ElA].mounted /\ MalformedParams(dom[ElA].props)) =>
       /\ comp[ElA].status = "error"
       /\ comp[ElA].error.type = "config"
       /\ \A id \in DOMAIN runs :
             MalformedParams(runs[id].props) =>
                runs[id].did \cap {"POST", "storeImage"} = {}

\* C25 witness: the component whose params attribute is not valid JSON shows
\* a generated image, and the cache holds it under the key of that markup.
C25_Witness ==
    /\ ElA \in DOMAIN dom
    /\ MalformedParams(dom[ElA].props)
    /\ comp[ElA].status = "done"
    /\ "POST" \in applied[ElA].did
    /\ applied[ElA].by = comp[ElA].genId
    /\ CacheKeyOf(dom[ElA].props, themeAttr, Elems(dom)) \in DOMAIN local

\* Both components with identical attributes missed the cache, generated, and
\* have finished: each shows the image its own request returned.
BothGenerated ==
    /\ dom[ElA].props = dom[ElB].props
    /\ \A c \in {ElA, ElB} :
          /\ comp[c].status = "done"
          /\ "POST" \in applied[c].did
          /\ applied[c].by = comp[c].genId
    /\ DOMAIN runs = {}

\* C26 as stated: when two components with identical attributes have both
\* generated, the value each wrote under the shared key is the same, and it
\* is what the cache holds unless the remote layer replaced it by the
\* permanent URL of the key.
C26_AsStated ==
    BothGenerated =>
       /\ comp[ElA].src = comp[ElB].src
       /\ Cached(CacheKeyOf(dom[ElA].props, themeAttr, Elems(dom)))
            \in {comp[ElA].src, CdnUrl(CacheKeyOf(dom[ElA].props, themeAttr, Elems(dom)))}

\* C26 witness: both have generated, the values they wrote differ, and the
\* cache holds the one b wrote, b's write having come last.
C26_Witness ==
    /\ BothGenerated
    /\ comp[ElA].src # comp[ElB].src
    /\ Cached(CacheKeyOf(dom[ElA].props, themeAttr, Elems(dom))) = comp[ElB].src

(***************************************************************************)
(* adapters : adapter.buildRequest(params, op, ref) of the two registered  *)
(* adapters.  A request body is a function from field names to values; a   *)
(* raw-parameter bag (UniversalParams.rawParams, the parsed params         *)
(* attribute) is the sequence of its entries in source order, each a key,  *)
(* the tokens of its value and a closing EntryEnd.                         *)
(***************************************************************************)
Undefined == <<"<undefined>">>

Null == <<"<null>">>

\* The Blob of the reference image
RefBlob == <<"<blob>">>

\* The properties an object literal inherits from Object.prototype
ObjectPrototype == {<<"constructor">>}

\* What reading such a property gives: the function Object
Inherited == <<"<function Object>">>

\* `${Object}`
InheritedText == <<"function Object() { [native code] }">>

\* table[key] on an object literal: own entries, then the prototype chain
Get(table, key) ==
    IF key \in DOMAIN table THEN table[key]
    ELSE IF key \in ObjectPrototype THEN Inherited
    ELSE Undefined

\* a || b
Or(a, b) == IF a \in {None, Undefined, Null, <<>>} THEN b ELSE a

\* a ?? b
Coalesce(a, b) == IF a \in {None, Undefined, Null} THEN b ELSE a

\* `${v}` for a string, undefined or an inherited function
Text(v) ==
    IF v = Undefined THEN <<"undefined">>
    ELSE IF v = Inherited THEN InheritedText
    ELSE v

EntryEnd == ";"

\* The positions of the keys of a bag
KeyAt(raw) == {i \in DOMAIN raw : raw[i] # EntryEnd /\ (i = 1 \/ raw[i - 1] = EntryEnd)}

\* The object JSON.parse made: the last entry of a key is the one it keeps
RawKeys(raw) == IF raw = None THEN {} ELSE {raw[i] : i \in KeyAt(raw)}

RawValue(raw, k) ==
    LET i == CHOOSE n \in KeyAt(raw) :
                 raw[n] = k /\ \A m \in KeyAt(raw) : raw[m] = k => m <= n
        j == CHOOSE n \in i..Len(raw) :
                 raw[n] = EntryEnd /\ \A m \in i..n : raw[m] = EntryEnd => m = n
    IN SubSeq(raw, i + 1, j - 1)

\* rawParams?.[k]
RawField(raw, k) == IF k \in RawKeys(raw) THEN RawValue(raw, k) ELSE Undefined

\* A merge that lets the computed fields win: { ...raw, ...body }
mergeRawUnderBody(body, raw) ==
    IF raw = None THEN body
    ELSE body @@ [k \in RawKeys(raw) |-> RawValue(raw, k)]

\* mergeRaw: raw ? { ...body, ...raw } : body
mergeRaw(body, raw) ==
    IF raw = None THEN body
    ELSE [k \in RawKeys(raw) |-> RawValue(raw, k)] @@ body

STYLE_PREFIX ==
    (<<"realistic">>    :> <<"photorealistic,">>) @@
    (<<"illustration">> :> <<"digital ", "illustration", ",">>) @@
    (<<"3d">>           :> <<"3D rendered,">>) @@
    (<<"pixel">>        :> <<"pixel", " art,">>) @@
    (<<"anime">>        :> <<"anime", " style,">>) @@
    (<<"vector">>       :> <<"vector", " illustration, clean lines,">>) @@
    (<<"natural">>      :> <<"natural", " lighting, realistic,">>) @@
    (<<"vivid">>        :> <<"vivid", ", HDR, dramatic lighting,">>) @@
    (<<"sketch">>       :> <<"pencil ", "sketch", ",">>) @@
    (<<"watercolor">>   :> <<"watercolor", " painting,">>) @@
    (<<"oil-painting">> :> <<"oil painting,">>) @@
    (<<"cinematic">>    :> <<"cinematic", ", film still,">>) @@
    (<<"minimalist">>   :> <<"minimalist", ", clean,">>) @@
    (<<"retro">>        :> <<"retro", " vintage,">>) @@
    (<<"comic">>        :> <<"comic", " book style,">>) @@
    (<<"isometric">>    :> <<"isometric", " view,">>) @@
    (<<"flat">>         :> <<"flat", " design,">>) @@
    (<<"neon">>         :> <<"neon", " glow, dark background,">>) @@
    (<<"fantasy">>      :> <<"fantasy", " art,">>) @@
    (<<"abstract">>     :> <<"abstract", " art,">>) @@
    (<<"icon">>         :> <<"app ", "icon", ", simple, clean,">>) @@
    (<<"logo">>         :> <<"logo", " design, clean, professional,">>) @@
    (<<"kawaii">>       :> <<"kawaii", " style, cute,">>)

\* buildPrompt(prompt, style, hasNativeStyle)
buildPrompt(prompt, style, hasNativeStyle) ==
    IF ~Truthy(style) \/ hasNativeStyle THEN prompt
    ELSE Text(Coalesce(Get(STYLE_PREFIX, style), style \o <<" style,">>))
         \o <<Blank>> \o prompt

RecraftBase == <<"https://external.api.recraft.ai">>

RECRAFT_DEFAULT_MODEL == <<"recraftv3">>

DEFAULT_VECTOR_MODEL == <<"recraftv3", "_vector">>

RecraftASPECT ==
    (<<"square">> :> <<"1:1">>) @@ (<<"landscape">> :> <<"4:3">>) @@
    (<<"portrait">> :> <<"3:4">>) @@ (<<"wide">> :> <<"16:9">>) @@
    (<<"tall">> :> <<"9:16">>)

FORMAT_MAP ==
    (<<"webp">> :> <<"webp">>) @@ (<<"png">> :> <<"png">>) @@ (<<"jpeg">> :> <<"png">>)

\* A StyleMapping { apiStyle, vector? }
StyleMapping(apiStyle, vector) == <<apiStyle, IF vector THEN "vector" ELSE "raster">>

\* resolved.apiStyle ; an inherited property is an object without apiStyle
ApiStyle(resolved) == IF Len(resolved) = 2 THEN <<resolved[1]>> ELSE Undefined

\* resolved.vector, as a condition
IsVector(resolved) == Len(resolved) = 2 /\ resolved[2] = "vector"

STYLE_MAP ==
    (<<"realistic">>    :> StyleMapping("Photorealism", FALSE)) @@
    (<<"natural">>      :> StyleMapping("Natural light", FALSE)) @@
    (<<"vivid">>        :> StyleMapping("HDR", FALSE)) @@
    (<<"cinematic">>    :> StyleMapping("Evening light", FALSE)) @@
    (<<"illustration">> :> StyleMapping("Illustration", FALSE)) @@
    (<<"3d">>           :> StyleMapping("Clay", FALSE)) @@
    (<<"pixel">>        :> StyleMapping("Pixel art", FALSE)) @@
    (<<"sketch">>       :> StyleMapping("Pencil sketch", FALSE)) @@
    (<<"watercolor">>   :> StyleMapping("Pastel sketch", FALSE)) @@
    (<<"oil-painting">> :> StyleMapping("Freehand details", FALSE)) @@
    (<<"comic">>        :> StyleMapping("Hard Comics", FALSE)) @@
    (<<"retro">>        :> StyleMapping("Retro Pop", FALSE)) @@
    (<<"neon">>         :> StyleMapping("Neon Calm", FALSE)) @@
    (<<"fantasy">>      :> StyleMapping("Bold fantasy", FALSE)) @@
    (<<"abstract">>     :> StyleMapping("Expressionism", FALSE)) @@
    (<<"isometric">>    :> Null) @@
    (<<"anime">>        :> Null) @@
    (<<"kawaii">>       :> Null) @@
    (<<"vector">>       :> StyleMapping("Vector art", TRUE)) @@
    (<<"minimalist">>   :> StyleMapping("Line art", TRUE)) @@
    (<<"flat">>         :> StyleMapping("Roundish flat", TRUE)) @@
    (<<"icon">>         :> StyleMapping("Vector art", TRUE)) @@
    (<<"logo">>         :> StyleMapping("Vector art", TRUE))

\* resolveStyle: STYLE_MAP[style] ?? null
resolveStyle(style) ==
    IF ~Truthy(style) THEN Null
    ELSE Coalesce(Get(STYLE_MAP, style), Null)

\* model.startsWith('recraftv4')
isV4(model) == StartsWith(model, "recraftv4")

\* An applyStyle without the V4 branch
applyStyleWithoutV4(body, style, model) ==
    IF ~Truthy(style) THEN body
    ELSE IF resolveStyle(style) # Null
      THEN ("style" :> ApiStyle(resolveStyle(style))) @@
           (IF IsVector(resolveStyle(style)) /\ body["model"] = RECRAFT_DEFAULT_MODEL
            THEN [body EXCEPT !["model"] = DEFAULT_VECTOR_MODEL] ELSE body)
    ELSE [body EXCEPT !["prompt"] = buildPrompt(body["prompt"], style, FALSE)]

\* applyStyle(body, style, model): the body it leaves
applyStyle(body, style, model) ==
    IF ~Truthy(style) THEN body
    ELSE IF isV4(model)
      THEN [body EXCEPT !["prompt"] =
              (IF resolveStyle(style) # Null
               THEN Text(ApiStyle(resolveStyle(style))) \o <<",">>
               ELSE style \o <<" style,">>)
              \o <<Blank>> \o body["prompt"]]
    ELSE IF resolveStyle(style) # Null
      THEN ("style" :> ApiStyle(resolveStyle(style))) @@
           (IF IsVector(resolveStyle(style)) /\ body["model"] = RECRAFT_DEFAULT_MODEL
            THEN [body EXCEPT !["model"] = DEFAULT_VECTOR_MODEL] ELSE body)
    ELSE [body EXCEPT !["prompt"] = buildPrompt(body["prompt"], style, FALSE)]

\* if (seed != null) ...; if (negativePrompt) ...; if (format) ...
RecraftOptional(params) ==
    (IF params.seed # None THEN "random_seed" :> params.seed ELSE <<>>) @@
    (IF Truthy(params.negativePrompt)
     THEN "negative_prompt" :> params.negativePrompt ELSE <<>>) @@
    (IF Truthy(params.format)
     THEN "image_format" :> Or(Get(FORMAT_MAP, params.format), <<"png">>) ELSE <<>>)

\* return { url, body: mergeRaw(body, rawParams), contentType }.  The field
\* computed keeps the body as it was before the merge.
BuiltRequest(url, body, rawParams, contentType) ==
    [url |-> url, body |-> mergeRaw(body, rawParams), computed |-> body,
     contentType |-> contentType]

\* The body of the three Recraft operations that take a prompt, as
\* applyStyle leaves it
RecraftComputed(params, fields) ==
    applyStyle(RecraftOptional(params) @@ fields @@
               ("model" :> Or(RawField(params.rawParams, "model"), RECRAFT_DEFAULT_MODEL)) @@
               ("prompt" :> Or(params.prompt, <<>>)) @@
               ("response_format" :> <<"url">>) @@
               ("block_nsfw" :> <<"true">>),
               params.style,
               Or(RawField(params.rawParams, "model"), RECRAFT_DEFAULT_MODEL))

RecraftGenerateRequest(params) ==
    BuiltRequest(RecraftBase \o <<"/v1/images/generations">>,
                 RecraftComputed(params,
                     "size" :> Get(RecraftASPECT, Or(params.aspect, <<"square">>))),
                 params.rawParams, "json")

RecraftImg2ImgRequest(params, ref) ==
    BuiltRequest(RecraftBase \o <<"/v1/images/imageToImage">>,
                 RecraftComputed(params,
                     ("image" :> ref) @@
                     ("strength" :> Coalesce(RawField(params.rawParams, "strength"),
                                             <<"0.5">>))),
                 params.rawParams, "multipart")

RecraftReplaceBgRequest(params, ref) ==
    BuiltRequest(RecraftBase \o <<"/v1/images/replaceBackground">>,
                 RecraftComputed(params, "image" :> ref),
                 params.rawParams, "multipart")

ENDPOINTS ==
    (Generate  :> <<"/v1/images/generations">>) @@
    (Img2Img   :> <<"/v1/images/imageToImage">>) @@
    (Upscale   :> <<"/v1/images/crispUpscale">>) @@
    (RemoveBg  :> <<"/v1/images/removeBackground">>) @@
    (ReplaceBg :> <<"/v1/images/replaceBackground">>) @@
    (Vectorize :> <<"/v1/images/vectorize">>)

\* buildProcessRequest (upscale, remove-bg) and buildVectorizeRequest
RecraftProcessRequest(params, ref, op) ==
    BuiltRequest(RecraftBase \o ENDPOINTS[op],
                 (IF Truthy(params.format)
                  THEN "image_format" :> Or(Get(FORMAT_MAP, params.format), <<"png">>)
                  ELSE <<>>) @@
                 ("image" :> ref) @@ ("response_format" :> <<"url">>),
                 params.rawParams, "multipart")

RecraftBuildRequest(params, op, ref) ==
    IF op = Generate THEN RecraftGenerateRequest(params)
    ELSE IF op = Img2Img THEN RecraftImg2ImgRequest(params, ref)
    ELSE IF op = ReplaceBg THEN RecraftReplaceBgRequest(params, ref)
    ELSE RecraftProcessRequest(params, ref, op)

OpenAIBase == <<"https://api.openai.com">>

OPENAI_DEFAULT_MODEL == <<"gpt-image-1.5">>

OpenAIASPECT ==
    (<<"square">> :> <<"1024x1024">>) @@ (<<"landscape">> :> <<"1536x1024">>) @@
    (<<"portrait">> :> <<"1024x1536">>) @@ (<<"wide">> :> <<"1536x1024">>) @@
    (<<"tall">> :> <<"1024x1536">>)

QUALITY ==
    (<<"draft">> :> <<"low">>) @@ (<<"standard">> :> <<"auto">>) @@ (<<"hd">> :> <<"high">>)

\* The fields both OpenAI build functions compute, around the prompt
OpenAIBody(params, prompt) ==
    (IF Truthy(params.format) THEN "output_format" :> params.format ELSE <<>>) @@
    ("model" :> Or(RawField(params.rawParams, "model"), OPENAI_DEFAULT_MODEL)) @@
    ("prompt" :> prompt) @@
    ("size" :> Get(OpenAIASPECT, Or(params.aspect, <<"square">>))) @@
    ("quality" :> Get(QUALITY, Or(params.quality, <<"standard">>)))

OpenAIGenerateRequest(params) ==
    BuiltRequest(OpenAIBase \o <<"/v1/images/generations">>,
                 OpenAIBody(params,
                     buildPrompt(Or(params.prompt, <<>>), params.style, FALSE)),
                 params.rawParams, "json")

OpenAIEditRequest(params, op, ref) ==
    BuiltRequest(OpenAIBase \o <<"/v1/images/edits">>,
                 (IF ref # None THEN "image" :> ref ELSE <<>>) @@
                 OpenAIBody(params,
                     (IF op = ReplaceBg THEN <<"Replace the background: ">> ELSE <<>>)
                     \o buildPrompt(Or(params.prompt, <<>>), params.style, FALSE)),
                 params.rawParams, "multipart")

OpenAIBuildRequest(params, op, ref) ==
    IF op \in {Img2Img, ReplaceBg} THEN OpenAIEditRequest(params, op, ref)
    ELSE OpenAIGenerateRequest(params)

\* ModelRegistry.get(modelId).buildRequest(params, op, ref)
buildRequest(modelId, params, op, ref) ==
    IF modelId = Recraft THEN RecraftBuildRequest(params, op, ref)
    ELSE OpenAIBuildRequest(params, op, ref)


(***************************************************************************)
(* SpecBuild : one call of adapter.buildRequest as Core.execute makes it   *)
(* (line 147), for every registered adapter, every operation it supports,  *)
(* and parameters drawn from the sets below.                               *)
(***************************************************************************)
\* img-style: absent, the universal names, a provider's own name, and a
\* name every object literal inherits
Styles == {None} \cup DOMAIN STYLE_MAP \cup {<<"Hand-drawn">>} \cup ObjectPrototype

RawModels == {<<"recraftv4">>, <<"recraftv4", "_pro">>, <<"recraftv3">>, <<"variant-x">>}

RawEntries(k, vs) == {<<>>} \cup {<<k>> \o v \o <<EntryEnd>> : v \in vs}

\* The params attribute: absent, or an object with some of model, style,
\* size and strength
RawBags ==
    {None} \cup
    {m \o st \o sz \o sg :
        m \in RawEntries("model", RawModels),
        st \in RawEntries("style", {<<"Neon Calm">>}),
        sz \in RawEntries("size", {<<"2048x2048">>}),
        sg \in RawEntries("strength", {<<"0.8">>})}

Aspects == {None, <<"wide">>}

InitBuild ==
    /\ EmptyStore
    /\ remote = {}
    /\ NoPage
    /\ markupA = NoMarkup
    /\ markupB = NoMarkup
    /\ keys = <<>>
    /\ built = NoRequest
    /\ themes = OneTheme

\* Core.execute has validated the call: the operation is one the adapter
\* supports, a prompt is given where the operation requires one, and the
\* reference image has been fetched where it requires one.
Build(modelId, op, style, aspect, raw) ==
    /\ built = NoRequest
    /\ op \in Range(Adapter(modelId).supportedOps)
    /\ LET params == [NoParams EXCEPT
                         !.prompt = IF OP_REQUIREMENTS(op).prompt THEN <<"cat">> ELSE None,
                         !.style = style, !.aspect = aspect, !.rawParams = raw]
           ref == IF OP_REQUIREMENTS(op).ref THEN RefBlob ELSE None
       IN built' = <<[modelId |-> modelId, op |-> op, params |-> params,
                      request |-> buildRequest(modelId, params, op, ref)]>>
    /\ UNCHANGED <<coreVars, compVars, markupA, markupB, keys, themes>>

NextBuild ==
    \E modelId \in Range(RegistryIds), op \in Range(ALL_OPERATIONS),
       style \in Styles, aspect \in Aspects, raw \in RawBags :
        Build(modelId, op, style, aspect, raw)

SpecBuild == InitBuild /\ [][NextBuild]_vars

\* The call made and the request it returned
LastBuilt == built[1]

\* C27: for every adapter, every operation it builds and every key of the
\* raw-parameter bag, the built request body carries the raw value under that
\* key, also where the adapter computed another value for it (the model, the
\* style, the size, the strength).
C27_RawOverrides ==
    built # NoRequest =>
        \A k \in RawKeys(LastBuilt.params.rawParams) :
            /\ k \in DOMAIN LastBuilt.request.body
            /\ LastBuilt.request.body[k] = RawValue(LastBuilt.params.rawParams, k)

\* Recraft computed the vector model, a native style and a size, and the
\* raw parameters name another model, style and size: the body has the latter
C27_Witness ==
    /\ built # NoRequest
    /\ LastBuilt.modelId = Recraft
    /\ {"model", "style", "size"} \subseteq RawKeys(LastBuilt.params.rawParams)
    /\ {"model", "style", "size"} \subseteq DOMAIN LastBuilt.request.computed
    /\ LastBuilt.request.computed["model"] = DEFAULT_VECTOR_MODEL
    /\ LastBuilt.request.computed["style"] = <<"Vector art">>
    /\ LastBuilt.request.computed["size"] = <<"16:9">>
    /\ LastBuilt.request.body["model"] = <<"recraftv3">>
    /\ LastBuilt.request.body["style"] = <<"Neon Calm">>
    /\ LastBuilt.request.body["size"] = <<"2048x2048">>

\* The adapter's own table maps the style name to a native value
HasNativeMapping(modelId, style) ==
    /\ modelId = Recraft
    /\ style \in DOMAIN STYLE_MAP
    /\ STYLE_MAP[style] # Null

\* The prompt text carries the style: its name or its configured phrase
PromptCarries(prompt, style) ==
    \/ Includes(prompt, style)
    \/ style \in DOMAIN STYLE_PREFIX /\ Includes(prompt, STYLE_PREFIX[style])

\* A call with a style, for an operation that takes a prompt, without raw
\* parameters (so with the adapter's default model)
StyledCall ==
    /\ built # NoRequest
    /\ Truthy(LastBuilt.params.style)
    /\ OP_REQUIREMENTS(LastBuilt.op).prompt
    /\ LastBuilt.params.rawParams = None

\* The style is either sent as the native value with the prompt left as the
\* user wrote it, or not sent as a field and carried by the prompt
StyleHandled ==
    IF HasNativeMapping(LastBuilt.modelId, LastBuilt.params.style)
    THEN /\ "style" \in DOMAIN LastBuilt.request.body
         /\ LastBuilt.request.body["style"] = ApiStyle(STYLE_MAP[LastBuilt.params.style])
         /\ LastBuilt.request.body["prompt"] = LastBuilt.params.prompt
    ELSE /\ "style" \notin DOMAIN LastBuilt.request.body
         /\ PromptCarries(LastBuilt.request.body["prompt"], LastBuilt.params.style)

\* C28: for every adapter and every style name: without a native mapping the
\* built body has no style field and the prompt contains the style name or
\* its configured phrase; with a native mapping the style field is the native
\* value and the prompt is the user's prompt unchanged.
C28_AsStated == StyledCall => StyleHandled

\* Recraft, img-style="constructor": the body has a style field holding
\* undefined and the prompt is the user's prompt, without the style
C28_Witness ==
    /\ StyledCall
    /\ LastBuilt.modelId = Recraft
    /\ LastBuilt.params.style = <<"constructor">>
    /\ "style" \in DOMAIN LastBuilt.request.body
    /\ LastBuilt.request.body["style"] = Undefined
    /\ LastBuilt.request.body["prompt"] = LastBuilt.params.prompt

\* For the style names that are not properties of Object.prototype the
\* style is handled as C28 says, by both adapters
StyleHandledForOwnNames ==
    StyledCall /\ LastBuilt.params.style \notin ObjectPrototype => StyleHandled

\* OpenAI, img-style="constructor": the prompt starts with the text of a
\* function and does not name the style
OpenAIInheritedPrefix ==
    /\ StyledCall
    /\ LastBuilt.modelId = OpenAI
    /\ LastBuilt.op = Generate
    /\ LastBuilt.request.body["prompt"] = InheritedText \o <<Blank, "cat">>

\* A Recraft call for an operation that takes a prompt, with a V4 model
\* named by the raw parameters and a universal style
V4StyledCall ==
    /\ built # NoRequest
    /\ LastBuilt.modelId = Recraft
    /\ LastBuilt.op \in {Generate, Img2Img, ReplaceBg}
    /\ isV4(RawField(LastBuilt.params.rawParams, "model"))
    /\ LastBuilt.params.style \in DOMAIN STYLE_MAP

\* C30: for the Recraft adapter with a V4 model selected through the raw
\* parameters, every universal style, natively mapped or not, is put into
\* the prompt text (the native value or the style name, before the user's
\* prompt), and the computed body has no style field and keeps the V4 model;
\* for generate, img2img and replace-bg.
C30_V4StyleInPrompt ==
    V4StyledCall =>
        /\ "style" \notin DOMAIN LastBuilt.request.computed
        /\ LastBuilt.request.computed["model"] = RawField(LastBuilt.params.rawParams, "model")
        /\ LastBuilt.request.computed["prompt"] =
              (IF HasNativeMapping(Recraft, LastBuilt.params.style)
               THEN ApiStyle(STYLE_MAP[LastBuilt.params.style]) \o <<",">>
               ELSE LastBuilt.params.style \o <<" style,">>)
              \o <<Blank>> \o LastBuilt.params.prompt
        /\ ("style" \in DOMAIN LastBuilt.request.body
               => "style" \in RawKeys(LastBuilt.params.rawParams))

\* img2img with recraftv4_pro and the vector style: 'Vector art, cat'
C30_Witness ==
    /\ V4StyledCall
    /\ LastBuilt.op = Img2Img
    /\ LastBuilt.params.style = <<"vector">>
    /\ LastBuilt.request.body["model"] = <<"recraftv4", "_pro">>
    /\ LastBuilt.request.body["prompt"] = <<"Vector art", ",", Blank, "cat">>
    /\ "style" \notin DOMAIN LastBuilt.request.body


(***************************************************************************)
(* SpecRoute : the requests of one page.  One <vibe-img> of either         *)
(* built-in adapter, for generate or for img2img with a reference URL,     *)
(* whose image can expire; a call of an async adapter through the polling  *)
(* loop; setup({ corsProxyUrl }) with a relay or without one.              *)
(***************************************************************************)
RefUrl == <<"https://img/", "a.png">>

RouteProps ==
    {PropsOf(<<<<"model", m>>, <<"prompt", <<"cat">>>>>>) : m \in {Recraft, OpenAI}}
    \cup {PropsOf(<<<<"model", m>>, <<"op", Img2Img>>, <<"prompt", <<"cat">>>>,
                    <<"img-ref", RefUrl>>>>) : m \in {Recraft, OpenAI}}

InitRoute ==
    /\ EmptyStore
    /\ remote = {}
    /\ \E p \in RouteProps : dom = (ElA :> [props |-> p, resolvedUrl |-> None])
    /\ comp = (ElA :> InitialComp)
    /\ applied = (ElA :> NoHistory)
    /\ themeAttr = None
    /\ NoKeyCheck

\* The page's script makes its call of the async adapter before the
\* component is connected.
NextRoute ==
    \/ DOMAIN runs = {} /\ Mount(ElA)
    \/ ImgError(ElA)
    \/ \E m \in {Recraft, OpenAI, Flux} : ConfigureKey(m)
    \/ \E v \in BOOLEAN : Setup(<<"corsProxyUrl", v>>)
    \/ \E id \in DOMAIN runs, old \in BOOLEAN : LookupLocal(id, old)
    \/ \E id \in DOMAIN runs, o \in HeadOutcomes : LookupRemote(id, o, FALSE)
    \/ \E id \in DOMAIN runs : GetKey(id)
    \/ \E id \in DOMAIN runs, o \in RefOutcomes : FetchRef(id, o)
    \/ \E id \in DOMAIN runs, o \in ExpiryPost : Post(id, o)
    \/ \E id \in DOMAIN runs : StoreLocal(id)
    \/ \E id \in DOMAIN runs, o \in OnePut : StoreRemote(id, o)
    \/ \E id \in DOMAIN runs : RemoveLocal(id)
    \/ \E id \in DOMAIN runs, ok \in BOOLEAN : RemoveRemote(id, ok)
    \/ ~comp[ElA].mounted /\ AsyncExecute(TRUE)
    \/ \E id \in DOMAIN runs, o \in AsyncPostOutcomes : AsyncPost(id, o)
    \/ \E id \in DOMAIN runs : AsyncSleep(id)
    \/ \E id \in DOMAIN runs, o \in PollOutcomes : AsyncPoll(id, o)

SpecRoute == InitRoute /\ [][NextRoute]_vars

\* The requests a step passes to fetch, with the run that sends them
SentInStep ==
    {<<id, q>> \in UNION {{id} \X runs'[id].sent : id \in DOMAIN runs'} :
        id \in DOMAIN runs => q \notin runs[id].sent}

\* The request is the generation request or a poll of the run, sent where
\* the adapter's CORS mode and the configured relay say
RoutedProviderRequest(r, q) ==
    LET target == IF q.method = "POST" THEN AdapterUrl(r.modelId, r.op) ELSE PollUrl
    IN /\ q.method \in {"POST", "GET"}
       /\ q.url = IF Adapter(r.modelId).corsMode = "proxy" /\ config.corsProxyUrl
                  THEN Proxied(target) ELSE target

\* C29: the provider credential is attached to the generation request and to
\* the poll requests and to no other request: not to the reference-image
\* fetch, nor to the HEAD, PUT and DELETE of the remote cache.  A request
\* with the credential goes to the adapter's own URL when the adapter's
\* corsMode is 'direct' or no relay is configured, and to the relay when
\* corsMode is 'proxy' and a relay is configured.
C29_CredentialRouting ==
    [][\A s \in SentInStep :
          IF AuthHeader \in s[2].headers
          THEN RoutedProviderRequest(runs'[s[1]], s[2])
          ELSE /\ s[2].method \in {"GET", "HEAD", "PUT", "DELETE"}
               /\ s[2].url \in {runs'[s[1]].refUrl, CdnUrl(runs'[s[1]].cacheKey),
                                WorkerUrl(runs'[s[1]].cacheKey)}]_vars

\* An OpenAI img2img run has probed the CDN and fetched the reference image
\* without the credential, sent the generation request with it through the
\* relay, and stores the image with a PUT without it
C29_Witness ==
    \E id \in DOMAIN runs :
        /\ runs[id].modelId = OpenAI
        /\ runs[id].pc = "storeRemote"
        /\ Request("HEAD", CdnUrl(runs[id].cacheKey), {}) \in runs[id].sent
        /\ Request("GET", RefUrl, {}) \in runs[id].sent
        /\ Request("POST", Proxied(AdapterUrl(OpenAI, Img2Img)), {AuthHeader, ClientHeader})
              \in runs[id].sent
        /\ Request("PUT", WorkerUrl(runs[id].cacheKey), {ContentType, ClientHeader})
              \in runs[id].sent


(***************************************************************************)
(* SpecTheme : one <vibe-img> inside two nested <vibe-theme> elements,     *)
(* with a third <vibe-theme> next to them.  The page is written with any   *)
(* of the theme prompts and a script rewrites them.                        *)
(***************************************************************************)
\* The values a prompt attribute of a <vibe-theme> takes: not written, empty,
\* a text, a text with blanks around it
ThemeTexts == PageThemes \cup {<<>>, <<Blank, "dark", Blank>>}

InitTheme ==
    /\ EmptyStore
    /\ remote = {}
    /\ dom = (ElA :> [props |-> PropsAnchor, resolvedUrl |-> None])
    /\ comp = (ElA :> InitialComp)
    /\ applied = (ElA :> NoHistory)
    /\ markupA = NoMarkup
    /\ markupB = NoMarkup
    /\ keys = <<>>
    /\ built = NoRequest
    /\ \E near \in ThemeTexts, outer \in ThemeTexts :
          /\ themes = [ancestors |-> <<near, outer>>, aside |-> None, target |-> None]
          /\ themeAttr = closest(<<near, outer>>)

NextTheme ==
    \/ Mount(ElA)
    \/ \E e \in Edits : AttrChange(ElA, e)
    \/ \E i \in 1..2, th \in ThemeTexts : ThemePrompt(i, th)
    \/ \E th \in PageThemes : AsidePrompt(th)
    \/ ConfigureKey(Recraft)
    \/ \E id \in DOMAIN runs, old \in BOOLEAN : LookupLocal(id, old)
    \/ \E id \in DOMAIN runs, o \in HeadOutcomes : LookupRemote(id, o, FALSE)
    \/ \E id \in DOMAIN runs : GetKey(id)
    \/ \E id \in DOMAIN runs, o \in OnePost : Post(id, o)
    \/ \E id \in DOMAIN runs : StoreLocal(id)
    \/ \E id \in DOMAIN runs, o \in OnePut : StoreRemote(id, o)

SpecTheme == InitTheme /\ [][NextTheme]_vars

\* The prompt with the trimmed prompt of the nearest theme after it
WithNearestTheme(prompt, ancestors) ==
    IF ancestors[1] = None \/ Trim(ancestors[1]) = <<>> THEN prompt
    ELSE prompt \o <<", ">> \o Trim(ancestors[1])

\* The execution the component's generation counter stands at
CurrentRun(c) == RunId(c, "run", comp[c].genId)

\* C31: the prompt in the parameters of a component's current execution is
\* the component's prompt followed by the trimmed prompt of the nearest
\* enclosing <vibe-theme> (nothing is appended when that theme has no prompt,
\* whatever an outer theme says), and a step that changes the prompt of the
\* nearest theme of a mounted component leaves the component with a new
\* execution whose parameters carry the new value.
C31_NearestThemeAppended ==
    [][/\ CurrentRun(ElA)' \in DOMAIN runs' =>
            runs'[CurrentRun(ElA)'].params.prompt
              = WithNearestTheme(dom'[ElA].props["prompt"], themes'.ancestors)
       /\ (comp[ElA].mounted /\ themes'.ancestors[1] # themes.ancestors[1]) =>
            /\ comp'[ElA].genId > comp[ElA].genId
            /\ CurrentRun(ElA)' \in DOMAIN runs' \ DOMAIN runs
            /\ runs'[CurrentRun(ElA)'].pc = "lookupLocal"
            /\ comp'[ElA].status = "checking"]_vars

\* The provider request of an execution was built from the prompt "cat, dark"
\* after a script gave the nearest theme the prompt " dark ", under an outer
\* theme whose prompt is "warm".
C31_Witness ==
    /\ themes.ancestors = <<<<Blank, "dark", Blank>>, <<"warm">>>>
    /\ applied[ElA].cause = "theme"
    /\ CurrentRun(ElA) \in DOMAIN runs
    /\ "buildRequest" \in runs[CurrentRun(ElA)].did
    /\ runs[CurrentRun(ElA)].params.prompt = <<"cat", ", ", "dark">>


\* C39_AsStated: a theme-change notification from a <vibe-theme> that is not
\* an ancestor of the component leaves the component's status, displayed
\* image, generation counter and in-flight request unchanged.
C39_AsStated ==
    [][\A c \in DOMAIN dom :
          (comp[c].mounted /\ themes'.aside # themes.aside) =>
            /\ comp'[c].status = comp[c].status
            /\ comp'[c].src = comp[c].src
            /\ comp'[c].genId = comp[c].genId
            /\ CurrentRun(c) \in DOMAIN runs =>
                 /\ CurrentRun(c) \in DOMAIN runs'
                 /\ runs'[CurrentRun(c)] = runs[CurrentRun(c)]]_vars

\* The last notification came from the theme aside, whose prompt a script
\* set to 'warm'; the component, inside two themes without a prompt, was
\* showing its image and is in 'checking' again, in a new generation started
\* by the notification.
C39_Witness ==
    /\ themes.target = <<"aside">>
    /\ themes.aside = <<"warm">>
    /\ themes.ancestors = <<None, None>>
    /\ comp[ElA].mounted
    /\ comp[ElA].genId = 3
    /\ comp[ElA].status = "checking"
    /\ applied[ElA].cause = "theme"
    /\ applied[ElA].urlKey # None

\* Every step that changed the prompt of the theme aside while the component
\* was mounted started a new generation of the component.
AsideThemeRestarts ==
    [][(comp[ElA].mounted /\ themes'.aside # themes.aside) =>
          /\ comp'[ElA].genId = comp[ElA].genId + 2
          /\ comp'[ElA].status = "checking"
          /\ applied'[ElA].cause = "theme"]_vars

(***************************************************************************)
(* SpecSeed : the way of the seed attribute from the markup to the request *)
(* body: the hook's buildParams, then adapter.buildRequest as Core.execute *)
(* calls it with those parameters.                                         *)
(***************************************************************************)
\* The seed attribute as a page writes it: not written, empty, integers,
\* and texts that are no integer
SeedTexts ==
    {None, <<>>, <<"0">>, <<"7">>, <<"4", "2">>, <<"-", "5">>, <<"0", "0">>,
     <<"x">>, <<"1", "2", "p", "x">>}

\* The texts of SeedTexts that are integer literals
IntegerTexts == {<<"0">>, <<"7">>, <<"4", "2">>, <<"-", "5">>}

SeedMarkups ==
    {[attrs |-> <<<<"model", m>>, <<"prompt", p>>>>
                  \o (IF o = Generate THEN <<>>
                      ELSE <<<<"op", o>>, <<"img-ref", <<"https://img/", "a.png">>>>>>)
                  \o (IF sd = None THEN <<>> ELSE <<<<"seed", sd>>>>),
      theme |-> None] :
       m \in Range(RegistryIds), p \in {<<"cat">>, <<"dog">>},
       o \in {Generate, Img2Img}, sd \in SeedTexts}

InitSeed ==
    /\ EmptyStore
    /\ remote = {}
    /\ NoPage
    /\ markupA \in SeedMarkups
    /\ markupB = markupA
    /\ keys = <<>>
    /\ built = NoRequest
    /\ themes = OneTheme

\* doExecute builds the parameters from the props (line 548) and, the cache
\* having no entry, Core.execute hands them to the adapter (line 147).
BuildFromMarkup ==
    /\ built = NoRequest
    /\ LET props == PropsOf(markupA.attrs)
           params == buildParams(props, markupA.theme)
       IN built' = <<[modelId |-> props["model"], op |-> OpOf(props), params |-> params,
                      request |-> buildRequest(props["model"], params, OpOf(props),
                                               IF OP_REQUIREMENTS(OpOf(props)).ref
                                                 THEN RefBlob ELSE None)]>>
    /\ UNCHANGED <<coreVars, compVars, markupA, markupB, keys, themes>>

NextSeed == BuildFromMarkup

SpecSeed == InitSeed /\ [][NextSeed]_vars

\* The seed attribute of the markup the request was built for
SeedWritten == PropsOf(markupA.attrs)["seed"]

\* C32 (as stated): when the seed attribute holds an integer, the parameters
\* carry that integer as seed and a Recraft request body carries it as
\* random_seed; when the attribute is not written, the parameters have no
\* seed and the body no random_seed.
C32_AsStated ==
    built # NoRequest =>
       /\ SeedWritten \in IntegerTexts =>
            /\ LastBuilt.params.seed = SeedWritten
            /\ LastBuilt.modelId = Recraft =>
                 /\ "random_seed" \in DOMAIN LastBuilt.request.body
                 /\ LastBuilt.request.body["random_seed"] = SeedWritten
       /\ SeedWritten = None =>
            /\ LastBuilt.params.seed = None
            /\ "random_seed" \notin DOMAIN LastBuilt.request.body

\* seed="0" on a Recraft component: the parameters have no seed and the body
\* no random_seed.
C32_Witness ==
    /\ built # NoRequest
    /\ SeedWritten = <<"0">>
    /\ LastBuilt.modelId = Recraft
    /\ LastBuilt.params.seed = None
    /\ "random_seed" \notin DOMAIN LastBuilt.request.body

\* For every integer other than 0 the seed arrives: in the parameters and in
\* the Recraft body.
SeedCarriedUnlessZero ==
    (built # NoRequest /\ SeedWritten \in IntegerTexts \ {<<"0">>}) =>
       /\ LastBuilt.params.seed = SeedWritten
       /\ LastBuilt.modelId = Recraft =>
            /\ "random_seed" \in DOMAIN LastBuilt.request.body
            /\ LastBuilt.request.body["random_seed"] = SeedWritten


(***************************************************************************)
(* SpecSignal : one Core.execute call whose caller may abort the signal it *)
(* passed, at any moment: a Recraft call (generate, or img2img with a      *)
(* reference URL) or a call of an asynchronous adapter in its polling      *)
(* loop.                                                                   *)
(***************************************************************************)
InitSignal ==
    /\ EmptyStore
    /\ remote = {}
    /\ NoPage
    /\ NoKeyCheck

NextSignal ==
    \/ ConfigureKey(Recraft)
    \/ ConfigureKey(Flux)
    \/ \E op \in {Generate, Img2Img}, u \in {None, RefUrl}, s \in BOOLEAN :
         ApiExecute(Recraft, op, <<"cat">>, u, s)
    \/ AsyncExecute(TRUE)
    \/ \E id \in DOMAIN runs : ApiAbort(id)
    \/ \E id \in DOMAIN runs, old \in BOOLEAN : LookupLocal(id, old)
    \/ \E id \in DOMAIN runs, o \in HeadOutcomes : LookupRemote(id, o, FALSE)
    \/ \E id \in DOMAIN runs : GetKey(id)
    \/ \E id \in DOMAIN runs, o \in RefOutcomes : FetchRef(id, o)
    \/ \E id \in DOMAIN runs, o \in OnePost : Post(id, o)
    \/ \E id \in DOMAIN runs : StoreLocal(id)
    \/ \E id \in DOMAIN runs, o \in OnePut : StoreRemote(id, o)
    \/ \E id \in DOMAIN runs, o \in AsyncPostOutcomes : AsyncPost(id, o)
    \/ \E id \in DOMAIN runs : AsyncSleep(id)
    \/ \E id \in DOMAIN runs, o \in PollOutcomes : AsyncPoll(id, o)

SpecSignal == InitSignal /\ [][NextSignal]_vars

\* The run has passed its generation POST to fetch
Posted(r) == "POST" \in r.did

\* The number of poll requests the run has passed to fetch
PollsOf(r) == IF "polls" \in DOMAIN r THEN r.polls ELSE 0

\* The step starts a provider request of the run: the generation POST or a
\* poll
StartsProviderRequest(id) ==
    \/ Posted(runs'[id]) /\ ~Posted(runs[id])
    \/ PollsOf(runs'[id]) > PollsOf(runs[id])

\* C33 (as stated): a step of an execution whose signal is aborted starts no
\* generation POST and no poll.
C33_AsStated ==
    [][\A id \in DOMAIN runs :
          (id \in DOMAIN runs' /\ runs[id].aborted) => ~StartsProviderRequest(id)]_vars

\* The signal was aborted while the key resolver was asked; the generation
\* POST is in flight all the same, and no listener will cancel it.
C33_Witness ==
    \E id \in DOMAIN runs :
       /\ runs[id].pc = "post"
       /\ runs[id].aborted
       /\ ~runs[id].armed
       /\ Request("POST", RequestUrl(config, runs[id].modelId, runs[id].op),
                  buildHeaders(Adapter(runs[id].modelId)) \cup {ContentType})
            \in runs[id].sent

\* The signal was aborted during the poll sleep; the next poll is in flight.
PollAfterAbort ==
    \E id \in DOMAIN runs :
       /\ runs[id].pc = "poll"
       /\ runs[id].aborted
       /\ ~runs[id].armed

\* An execution whose signal is aborted while the reference image is fetched,
\* or before the fetch is called, sends no POST: the step after fetchRefImage
\* fails the execution.
NoPostAfterAbortedRefFetch ==
    [][\A id \in DOMAIN runs :
          (id \in DOMAIN runs' /\ runs'[id] # runs[id] /\ runs[id].aborted
             /\ runs[id].pc = "fetchRef" /\ ~StartsWith(runs[id].refUrl, "data:"))
            => runs'[id].pc = "threw" /\ ~Posted(runs'[id])]_vars


(***************************************************************************)
(* Retries and newer attributes (SpecOne)                                  *)
(***************************************************************************)
\* No asynchronous chain of the component is pending
Quiet(c) == \A id \in DOMAIN runs : runs[id].owner # c

\* The cache key of the attributes the element carries now
CurrentKey(c) == CacheKeyOf(dom[c].props, themeAttr, Elems(dom))

\* C34 (as stated): when no asynchronous work of a mounted component is
\* pending and it displays an image, that image was written by an execution
\* started for the attributes the element carries now.
C34_AsStated ==
    \A c \in DOMAIN dom :
       (comp[c].mounted /\ Quiet(c) /\ comp[c].status = "done")
         => applied[c].key = CurrentKey(c)

\* The component displays the image of an execution the image-error retry
\* started with the attributes of an earlier render, after the attributes
\* changed; nothing is pending.
C34_Witness ==
    /\ comp[ElA].mounted /\ Quiet(ElA)
    /\ comp[ElA].status = "done"
    /\ applied[ElA].cause = "image error"
    /\ applied[ElA].by = comp[ElA].genId
    /\ applied[ElA].key = CacheKeyOf(PropsAnchor, themeAttr, Elems(dom))
    /\ dom[ElA].props # PropsAnchor

\* The key-saved listener is subscribed anew with every doExecute (lines
\* 670-679): the execution it starts has the attributes the element carries.
KeySavedRetryIsCurrent ==
    [][\A c \in DOMAIN dom :
          (c \in DOMAIN dom' /\ applied'[c].cause \in {"key saved", "key saved after auth error"}
             /\ RunId(c, "run", comp'[c].genId) \in DOMAIN runs' \ DOMAIN runs)
            => runs'[RunId(c, "run", comp'[c].genId)].cacheKey = CurrentKey(c)']_vars


\* The element has been removed from the page
Unmounted(c) == c \in DOMAIN comp /\ c \notin DOMAIN dom

\* C35 (as stated): in a step taken after a component was unmounted no
\* execution is started for it (no new chain with a cache lookup, a key
\* resolution or a request of its own) and its hook state stays as it is.
C35_AsStated ==
    [][\A c \in DOMAIN comp :
          Unmounted(c) =>
            /\ \A id \in DOMAIN runs' \ DOMAIN runs : runs'[id].owner # c
            /\ comp'[c] = comp[c]]_vars

\* After the unmount the pending invalidation has settled and its retry has
\* started a new execution: the hook is in 'checking' with a new generation
\* and the cache lookup of that execution is under way.
C35_Witness ==
    /\ Unmounted(ElA)
    /\ applied[ElA].cause = "image error"
    /\ comp[ElA].status = "checking"
    /\ CurrentRun(ElA) \in DOMAIN runs
    /\ runs[CurrentRun(ElA)].did = {"getImage"}

\* The executions the trigger effect and the key-saved listener start end
\* with the unmount: afterwards their handlers find the generation changed,
\* and the key-saved event finds no listener.
NoStartAfterUnmountButRetry ==
    [][\A c \in DOMAIN comp :
          (Unmounted(c) /\ \E id \in DOMAIN runs' \ DOMAIN runs : runs'[id].owner = c)
            => applied'[c].cause = "image error"]_vars


(***************************************************************************)
(* The resolved-url attribute (Spec: an anchor and its dependent)          *)
(***************************************************************************)
\* The element carries a resolved-url
HasResolvedUrl(c) == Truthy(dom[c].resolvedUrl)

\* C36 (as stated): a resolved-url attribute on a host element was set by an
\* execution of the attributes the element carries now.
C36_AsStated ==
    \A c \in DOMAIN dom : HasResolvedUrl(c) => applied[c].urlKey = CurrentKey(c)

\* The anchor's prompt was rewritten and its new execution is still checking
\* or loading; the element still carries the resolved-url set for the old
\* prompt, and the dependent has read it as its reference and sent its
\* request with it.
C36_Witness ==
    /\ comp[ElA].status \in {"checking", "loading"}
    /\ HasResolvedUrl(ElA)
    /\ applied[ElA].urlKey # CurrentKey(ElA)
    /\ CurrentRun(ElB) \in DOMAIN runs
    /\ runs[CurrentRun(ElB)].refUrl = dom[ElA].resolvedUrl
    /\ "POST" \in runs[CurrentRun(ElB)].did

\* While the element is done, its resolved-url is the image it shows.
ResolvedUrlIsShownImage ==
    \A c \in DOMAIN dom :
       (comp[c].mounted /\ comp[c].status = "done") => dom[c].resolvedUrl = comp[c].src


(***************************************************************************)
(* SpecAnchor : the cache keys of an anchor <vibe-img id="a"> written as   *)
(* markupA and as an edited markupB, and the keys of a component outside   *)
(* the anchor's theme that names it with img-ref="#a".                     *)
(***************************************************************************)
\* document.getElementById('a') when the anchor is written as m
AnchorElems(m) ==
    ElA :> [model |-> PropsOf(m.attrs)["model"], prompt |-> PropsOf(m.attrs)["prompt"]]

\* The key doExecute computes for the anchor written as m (lines 555-558)
AnchorKey(m) == CacheKeyOf(PropsOf(m.attrs), m.theme, AnchorElems(m))

\* The key doExecute computes for the dependent when the anchor is written
\* as m
DependentKey(m) == CacheKeyOf(PropsDependent, None, AnchorElems(m))

BuildAnchorKeys ==
    /\ keys = <<>>
    /\ keys' = <<AnchorKey(markupA), AnchorKey(markupB),
                 DependentKey(markupA), DependentKey(markupB)>>
    /\ UNCHANGED <<markupA, markupB, built, themes, coreVars, compVars>>

NextAnchor ==
    \/ Reorder
    \/ EditAttr
    \/ EditTheme
    \/ BuildAnchorKeys

SpecAnchor == InitKey /\ [][NextAnchor]_vars

\* C37 (as stated): when the two ways of writing the anchor have different
\* cache keys, the dependent has different cache keys too.
C37_AsStated ==
    keys # <<>> => (keys[1] # keys[2] => keys[3] # keys[4])

\* The anchor's aspect was rewritten: the anchor's key has changed, the
\* dependent's has not.
C37_Witness ==
    /\ keys # <<>>
    /\ PropsOf(markupA.attrs)["aspect"] # PropsOf(markupB.attrs)["aspect"]
    /\ keys[1] # keys[2]
    /\ keys[3] = keys[4]

\* The dependent's key follows the anchor's model and prompt, and nothing
\* else of the anchor.
DependentKeyFollowsModelAndPrompt ==
    keys # <<>> =>
       (keys[3] # keys[4] <=>
          \E n \in {"model", "prompt"} :
             Given(PropsOf(markupA.attrs)[n]) # Given(PropsOf(markupB.attrs)[n]))


(***************************************************************************)
(* SpecFail : one Core.execute call from every state of the two cache      *)
(* layers, with every way it can fail: the calls of SpecCore, and the call *)
(* of an asynchronous adapter with its polling loop.                       *)
(***************************************************************************)
NextFail ==
    \/ NextCore
    \/ ConfigureKey(Flux)
    \/ \E polling \in BOOLEAN :
          Cached(ApiKey) = None /\ ApiKey \notin remote /\ AsyncExecute(polling)
    \/ \E id \in DOMAIN runs, o \in AsyncPostOutcomes : AsyncPost(id, o)
    \/ \E id \in DOMAIN runs : AsyncSleep(id)
    \/ \E id \in DOMAIN runs, o \in PollOutcomes : AsyncPoll(id, o)

SpecFail == InitCore /\ [][NextFail]_vars

\* The run is inside storage.storeImage with an image reference that
\* extractImageUrl or parsePollingResponse returned
StoringParsedImage(r) == r.pc \in {"storeLocal", "storeRemote"} /\ Truthy(r.result)

\* C38: a step changes a cache layer only when it is the step of an
\* execution that stores an image reference parsed from a response, or the
\* backfill of a remote hit, which ends the execution successfully; and an
\* execution that has failed never got an image reference and never called
\* storeImage, so both layers hold what they held before the call.
C38_FailureLeavesCache ==
    [][/\ (local' # local \/ remote' # remote) =>
            \E id \in DOMAIN runs :
               /\ runs'[id] # runs[id]
               /\ \/ StoringParsedImage(runs[id])
                  \/ runs[id].pc = "lookupRemote" /\ runs'[id].pc = "returned"
       /\ \A id \in DOMAIN runs' :
             runs'[id].pc = "threw" =>
               /\ ~Truthy(runs'[id].result)
               /\ "storeImage" \notin runs'[id].did
               /\ (id \in DOMAIN runs /\ runs[id].pc # "threw") =>
                     (local' = local /\ remote' = remote)]_vars

\* A call with skipCache over an old entry failed at the provider: both
\* layers still hold the old entry.
C38_Witness ==
    \E id \in DOMAIN runs :
       /\ runs[id].pc = "threw"
       /\ "POST" \in runs[id].did
       /\ runs[id].skipCache
       /\ Cached(ApiKey) = OldUrl
       /\ ApiKey \in remote

\* The polling loop of an asynchronous adapter ran into its ceiling and the
\* cache is still empty.
CeilingLeavesCacheEmpty ==
    \E id \in DOMAIN runs :
       /\ runs[id].pc = "threw"
       /\ runs[id].err = AsyncTimedOutMsg(Flux)
       /\ local = <<>> /\ remote = {}


(***************************************************************************)
(* SpecSilent : the page of two components, the dependent one waiting for  *)
(* its anchor, with no edit and no removal, so that no execution is        *)
(* superseded; every remote party may answer or stay silent.  What         *)
(* happens without a remote party is fair: IndexedDB and the key store     *)
(* answer, the poll timer of waitForRef fires, the 5 s timer of the CDN    *)
(* probe and the requestTimeoutMs timer of makeRequest (POST to the        *)
(* provider or the relay, PUT to the remote cache) fire, and a fetch whose *)
(* signal is aborted rejects.                                              *)
(***************************************************************************)
SilentPost == {"image", "rejected", "timeout"}

NextSilent ==
    \/ \E c \in Range(CompOrder) : Mount(c)
    \/ ConfigureKey(Recraft)
    \/ \E id \in DOMAIN runs : LookupLocal(id, FALSE)
    \/ \E id \in DOMAIN runs, o \in HeadOutcomes : LookupRemote(id, o, FALSE)
    \/ \E id \in DOMAIN runs : RefTick(id)
    \/ \E id \in DOMAIN runs : GetKey(id)
    \/ \E id \in DOMAIN runs, o \in PairRef : FetchRef(id, o)
    \/ \E id \in DOMAIN runs, o \in SilentPost : Post(id, o)
    \/ \E id \in DOMAIN runs : StoreLocal(id)
    \/ \E id \in DOMAIN runs, o \in PairPut : StoreRemote(id, o)

SilentSteps ==
    \E id \in DOMAIN runs :
       \/ LookupLocal(id, FALSE)
       \/ LookupRemote(id, "timeout", FALSE)
       \/ RefTick(id)
       \/ GetKey(id)
       \/ Post(id, "timeout")
       \/ StoreLocal(id)
       \/ StoreRemote(id, "failed")
       \/ /\ runs[id].aborted \/ StartsWith(runs[id].refUrl, "data:")
          /\ FetchRef(id, "ok")

SpecSilent == Init /\ [][NextSilent]_vars /\ WF_vars(SilentSteps)

\* Component c is mounted and in one of the two working states
Busy(c) == comp[c].mounted /\ comp[c].status \in {"checking", "loading"}

\* Component c has ended in done or error, or is gone
Ended(c) == ~comp[c].mounted \/ comp[c].status \in {"done", "error"}

\* The current execution of c is inside fetchRefImage, waiting for the host
\* of an http(s) reference image, and has not been aborted
RefHostPending(c) ==
    /\ CurrentRun(c) \in DOMAIN runs
    /\ runs[CurrentRun(c)].pc = "fetchRef"
    /\ ~runs[CurrentRun(c)].aborted
    /\ ~StartsWith(runs[CurrentRun(c)].refUrl, "data:")

\* C40_AsStated: every component that is checking or loading ends in done
\* or error (or is removed), whichever remote party stays silent.
C40_AsStated == \A c \in {ElA, ElB} : Busy(c) ~> Ended(c)

\* The dependent component is loading, its execution waits for the host of
\* the anchor's image, and nothing else is running on the page: only an
\* answer of that host can take the component out of 'loading'.
C40_Witness ==
    /\ Busy(ElB)
    /\ RefHostPending(ElB)
    /\ DOMAIN runs = {CurrentRun(ElB)}
    /\ ~ENABLED SilentSteps

\* Whichever remote party stays silent, a component that is checking or
\* loading ends, or is left waiting for the host of its reference image.
EndsUnlessRefHostSilent ==
    \A c \in {ElA, ElB} : Busy(c) ~> (Ended(c) \/ RefHostPending(c))

=============================================================================
